---- MODULE Spec2Model ----
(***************************************************************************)
(* State-machine model of the chain engine of Integrity-Coin:              *)
(*   internal/blockchain (Blockchain, AddBlock, ValidateBlock, reload),    *)
(*   internal/utxo (UTXOSet), internal/tx (Transaction, Sign, Verify),     *)
(*   internal/pow (ProofOfWork), internal/merkle, internal/storage and the *)
(*   block reception of internal/p2p (processReceivedBlock).               *)
(*                                                                         *)
(* Byte strings are symbolic terms (tuples headed by a tag):               *)
(*   Nil = <<>> (a nil slice), <<"zero">> (32 zero bytes),                 *)
(*   <<"pub", k>> (public key of wallet k), <<"h160", k>> (its hash-160),  *)
(*   <<"data", s>> (coinbase data), <<"sig", k, m, rLen, sLen>> (signature *)
(*   of m by k whose r and s have rLen and sLen significant bytes),        *)
(*   <<"txid", ins, outs>> (double SHA-256 of a serialised transaction),   *)
(*   <<"dh", <<l, r>>>> (double SHA-256 of l || r),                        *)
(*   <<"blk", header>> (double SHA-256 of a serialised header).            *)
(* Hashes are therefore collision free; the numeric value of a header hash  *)
(* is represented by its number of leading zero bits (LeadingZeros).       *)
(* Values are counted in coins (10^8 base units).  Output indexes are      *)
(* 0-based as in the source; sequences are 1-based.                        *)
(***************************************************************************)
EXTENDS Integers, Sequences, FiniteSets, TLC

(* ------------------------------ bounds -------------------------------- *)
\* number of blocks the chain may grow to
MaxBlocks == 3
\* number of non-coinbase transactions the chain may hold
MaxChainTxs == 2
\* number of candidate transactions handed to one AddBlock call
MaxListLen == 1
\* number of leading zero bytes r or s of a signature may have
MaxMissingBytes == 1
\* size of the nonce space searched by Mine (math.MaxUint32 in the source)
MaxNonce == 3
\* number of operations that may fail after they changed the state (a
\* storage write that fails, an AddBlock that stops in its UTXO update)
MaxFaults == 1
\* number of clock ticks in one behaviour
MaxTicks == 1
\* number of times the node is closed and started again on its store
MaxRestarts == 1
\* number of blocks a node appends before a second node connects to it
SyncBlocks == 3
\* number of blocks of the chain in the runs that reach a retargeting point
RetargetBlocks == 11
\* number of long clock steps in such a run, and their length in seconds
RetargetTicks == 5
RetargetTickSeconds == 50
\* number of ConnectToPeer calls of this node, each starting a syncWithPeer
MaxSyncs == 3
\* number of successful StartMining calls, and of mempool entries
MaxLoops == 2
MaxMempool == 2
\* number of BroadcastBlock calls of this node
MaxBroadcasts == 2
\* number of subscribers at a time, and of transactions submitted to them
MaxSubs == 2
MaxSubmits == 12
\* size of the negative amount a client may ask SendTransaction to send
MaxNegative == 5
\* number of processReceivedBlock calls between their checks and their append
MaxReceiving == 2

(* -------------------------- program constants ------------------------- *)
DefaultTargetBits == 16
DifficultyAdjustmentInterval == 10
BlockGenerationInterval == 10
MinTargetBits == 8
MaxTargetBits == 32
\* block subsidy 50*1e8 base units = 50 coins
Subsidy == 50
\* the amount a wallet sends when it keeps change
SendAmount == 20
\* 2 * time.Hour in seconds
FutureLimit == 7200
\* seconds the clock advances in one tick
TickSeconds == 60
\* width of the header hash in bits
HashBits == 256
\* bytes of a full-length r or s of a signature (a 256-bit scalar), and the
\* least length VerifySignature accepts
ScalarBytes == 32
\* capacity of the channel of a subscriber
SubCapacity == 10

(* ------------------------------ wallets ------------------------------- *)
Keys == {"K1", "K2"}
MinerKey == "K1"
Nil == <<>>
ZeroHash == <<"zero">>

\* With(e, LAMBDA x : body) is body with x naming the value of e, as in
\* x := e; body
With(e, F(_)) == F(e)

\* crypto.PublicKeyBytes: the serialised public key of wallet k
PubKeyOf(k) == <<"pub", k>>

\* crypto.PublicKeyHash: RIPEMD-160(SHA-256(pubKey))
PublicKeyHash(pub) == <<"h160", pub[2]>>

\* crypto.GetAddressFromPubKey / EncodeAddress: Base58Check of the hash
AddressOf(k) == <<"addr", PublicKeyHash(PubKeyOf(k))>>

\* crypto.DecodeAddress: the pubkey hash inside a (well-formed) address
DecodeAddress(addr) == addr[2]

\* Wallet.Sign: append(r.Bytes(), s.Bytes()...) for a signature (r, s) of
\* message m with the key of wallet k; big.Int.Bytes gives the significant
\* bytes only, rLen of r and sLen of s (ecdsa.Sign draws the nonce from
\* rand.Reader, so one message has signatures of several lengths)
Signature(k, m, rLen, sLen) == <<"sig", k, m, rLen, sLen>>

\* Wallet.Sign when r and s both have ScalarBytes significant bytes
Sign(k, m) == Signature(k, m, ScalarBytes, ScalarBytes)

\* crypto.VerifySignature(pubKey, message, signature): a signature shorter
\* than 32 bytes is refused; r is read from the first len/2 bytes and s from
\* the rest, which are the r and s that were signed only when the first
\* len/2 bytes are the bytes of r; ecdsa.Verify then checks key and message
VerifySignature(pub, m, sig) ==
    /\ Len(pub) = 2
    /\ pub[1] = "pub"
    /\ Len(sig) = 5
    /\ sig[4] + sig[5] >= ScalarBytes
    /\ (sig[4] + sig[5]) \div 2 = sig[4]
    /\ sig[2] = pub[2]
    /\ sig[3] = m

(* ---------------------------- transactions ----------------------------- *)
TxInput(txid, idx, sig, pub) ==
    [TxID |-> txid, OutIndex |-> idx, Signature |-> sig, PubKey |-> pub]

TxOutput(v, pkh) == [Value |-> v, PubKeyHash |-> pkh]

\* Transaction.Hash: double SHA-256 of the gob encoding with ID cleared
TxHash(ins, outs) == <<"txid", ins, outs>>

\* tx.NewTransaction
NewTransaction(ins, outs) ==
    [ID |-> TxHash(ins, outs), Inputs |-> ins, Outputs |-> outs]

\* tx.NewCoinbaseTx(to, data, reward)
NewCoinbaseTx(to, data, reward) ==
    NewTransaction(<<TxInput(Nil, -1, Nil, <<"data", data>>)>>,
                   <<TxOutput(reward, DecodeAddress(to))>>)

\* Transaction.IsCoinbase
IsCoinbase(tx) ==
    /\ Len(tx.Inputs) = 1
    /\ tx.Inputs[1].TxID = Nil
    /\ tx.Inputs[1].OutIndex = -1

\* Transaction.TrimmedCopy: inputs without signature and public key
TrimmedInputs(tx) ==
    [i \in 1..Len(tx.Inputs) |->
        TxInput(tx.Inputs[i].TxID, tx.Inputs[i].OutIndex, Nil, Nil)]

\* the digest signed for input i: the hash of the trimmed copy whose input i
\* carries the pubkey hash of the output it spends (pkh)
SigHash(tx, i, pkh) ==
    TxHash([TrimmedInputs(tx) EXCEPT ![i].PubKey = pkh], tx.Outputs)

SumValues(outs) ==
    LET RECURSIVE S(_)
        S(n) == IF n = 0 THEN 0 ELSE outs[n].Value + S(n - 1)
    IN S(Len(outs))

(* ------------------------------- merkle -------------------------------- *)
\* crypto.DoubleHashBytes(l || r)
DoubleHashPair(l, r) == <<"dh", <<l, r>>>>

\* one level of the tree: the last node is duplicated on odd length
MerkleLevel(tree) ==
    LET padded == IF Len(tree) % 2 # 0 THEN Append(tree, tree[Len(tree)])
                  ELSE tree
    IN [i \in 1..(Len(padded) \div 2) |->
            DoubleHashPair(padded[2 * i - 1], padded[2 * i])]

RECURSIVE MerkleReduce(_)
MerkleReduce(tree) ==
    IF Len(tree) > 1 THEN MerkleReduce(MerkleLevel(tree)) ELSE tree[1]

\* merkle.BuildMerkleRoot
BuildMerkleRoot(txHashes) ==
    IF Len(txHashes) = 0 THEN ZeroHash ELSE MerkleReduce(txHashes)

TxIDs(txs) == [i \in 1..Len(txs) |-> txs[i].ID]

(* ---------------------------- proof of work ---------------------------- *)
BlockHeader(prev, root, ts, bits, nonce) ==
    [Version |-> 1, PrevBlockHash |-> prev, MerkleRoot |-> root,
     Timestamp |-> ts, DifficultyTarget |-> bits, Nonce |-> nonce]

\* crypto.HashBlockHeader: double SHA-256 of the 80-byte serialisation
HashBlockHeader(hdr) == <<"blk", hdr>>

\* SHA-256 is modelled as a fixed deterministic function: TermNum is a
\* numeric digest of a symbolic byte string
RECURSIVE TermNum(_)
TermNum(t) ==
    IF Len(t) = 0 THEN 0
    ELSE IF t[1] = "zero" THEN 1
    ELSE IF t[1] = "txid" THEN (2 + 3 * Len(t[2]) + SumValues(t[3])) % 97
    ELSE IF t[1] = "dh" THEN (5 + 3 * TermNum(t[2][1]) + 7 * TermNum(t[2][2])) % 97
    ELSE IF t[1] = "blk" THEN
        (TermNum(t[2].PrevBlockHash) + 5 * TermNum(t[2].MerkleRoot)
           + (t[2].Timestamp \div TickSeconds) + 7 * t[2].DifficultyTarget
           + 11 * t[2].Nonce) % 97
    ELSE 3

\* the part of the digest of a header that does not depend on the nonce
HeaderSalt(hdr) == TermNum(HashBlockHeader([hdr EXCEPT !.Nonce = 0]))

\* number of leading zero bits of the header hash read as a big-endian
\* 256-bit integer (hashInt.SetBytes(hash)).  In every run of MaxNonce
\* consecutive nonces exactly one hash has at least MaxTargetBits - 1
\* leading zeros; the others have few.
LeadingZeros(hdr) ==
    With(HeaderSalt(hdr), LAMBDA salt :
        LET r == (salt + hdr.Nonce) % MaxNonce
        IN IF r = 0
           THEN (IF salt % 2 = 0 THEN MaxTargetBits - 1 ELSE MaxTargetBits + 1)
           ELSE 4 * r)

\* hashInt.Cmp(pow.Target) == -1 with Target = 1 << uint(256 - targetBits).
\* targetBits is a uint32: for targetBits > 256 the subtraction wraps, the
\* shift count is close to 2^32 and the target exceeds every 256-bit hash.
BelowTarget(hdr, targetBits) ==
    IF targetBits <= HashBits THEN LeadingZeros(hdr) >= targetBits ELSE TRUE

\* ProofOfWork.Validate
PowValidate(block) == BelowTarget(block.Header, block.Header.DifficultyTarget)

\* ProofOfWork.Mine: the first nonce below MaxNonce whose hash is below the
\* target; when there is none the loop ends with nonce = MaxNonce and the
\* hash computed last (for nonce MaxNonce - 1)
Mine(hdr) ==
    With({n \in 0..(MaxNonce - 1) :
             BelowTarget([hdr EXCEPT !.Nonce = n], hdr.DifficultyTarget)},
         LAMBDA sol :
            LET first == CHOOSE n \in sol : \A m \in sol : n <= m
            IN IF sol # {}
               THEN [nonce |-> first,
                     hash |-> HashBlockHeader([hdr EXCEPT !.Nonce = first])]
               ELSE [nonce |-> MaxNonce,
                     hash |-> HashBlockHeader([hdr EXCEPT
                                                  !.Nonce = MaxNonce - 1])])

(* ------------------------------ UTXO set ------------------------------- *)
\* The in-memory objects an operation works on: the UTXO map (utxo), the
\* block list (blocks) and the transactions of the block under construction
\* (txs).  A map entry holds the remaining outputs (outs) and names the
\* transaction object whose Outputs slice it shares (ref): AddUTXO stores
\* the slice itself, so the in-place removal of RemoveUTXO also rewrites
\* the Outputs of that object.
Mem(utxo, blocks, txs) == [utxo |-> utxo, blocks |-> blocks, txs |-> txs]

ChainRef(bi, ti) == <<"chain", bi, ti>>
NewRef(j) == <<"new", j>>

Obj(mem, ref) ==
    IF ref[1] = "chain" THEN mem.blocks[ref[2]].Transactions[ref[3]]
    ELSE mem.txs[ref[2]]

\* the backing array after append(outputs[:index], outputs[index+1:]...)
Overlay(arr, newOuts) ==
    [k \in 1..Len(arr) |-> IF k <= Len(newOuts) THEN newOuts[k] ELSE arr[k]]

WriteThrough(mem, ref, newOuts) ==
    IF ref = Nil THEN mem
    ELSE IF ref[1] = "chain"
    THEN [mem EXCEPT !.blocks[ref[2]].Transactions[ref[3]].Outputs =
                        Overlay(@, newOuts)]
    ELSE [mem EXCEPT !.txs[ref[2]].Outputs = Overlay(@, newOuts)]

RemoveAt(s, i) == SubSeq(s, 1, i - 1) \o SubSeq(s, i + 1, Len(s))

\* UTXOSet.AddUTXO(txID, outputs)
AddUTXO(mem, txid, outs, ref) ==
    [mem EXCEPT !.utxo = (txid :> [outs |-> outs, ref |-> ref]) @@ @]

\* UTXOSet.RemoveUTXO(txID, index)
RemoveUTXO(mem, txid, index) ==
    IF txid \notin DOMAIN mem.utxo
    THEN [err |-> "UTXO not found", mem |-> mem]
    ELSE LET e == mem.utxo[txid] IN
         IF index < 0 \/ index >= Len(e.outs)
         THEN [err |-> "invalid output index", mem |-> mem]
         ELSE With(RemoveAt(e.outs, index + 1), LAMBDA outs :
                With(WriteThrough(mem, e.ref, outs), LAMBDA m1 :
                  [err |-> "",
                   mem |-> IF Len(outs) = 0
                           THEN [m1 EXCEPT !.utxo =
                                   [k \in (DOMAIN @) \ {txid} |-> @[k]]]
                           ELSE [m1 EXCEPT !.utxo[txid].outs = outs]]))

\* UTXOSet.FindUTXO(txID, index)
FindUTXO(utxo, txid, index) ==
    IF txid \notin DOMAIN utxo THEN [err |-> "transaction not found"]
    ELSE IF index < 0 \/ index >= Len(utxo[txid].outs)
    THEN [err |-> "invalid output index"]
    ELSE [err |-> "", out |-> utxo[txid].outs[index + 1]]

RECURSIVE RemoveInputs(_, _, _)
RemoveInputs(mem, ins, i) ==
    IF i > Len(ins) THEN [err |-> "", mem |-> mem]
    ELSE With(RemoveUTXO(mem, ins[i].TxID, ins[i].OutIndex), LAMBDA r :
            IF r.err # "" THEN [err |-> "failed to remove UTXO", mem |-> r.mem]
            ELSE RemoveInputs(r.mem, ins, i + 1))

\* UTXOSet.Update(transaction), the transaction being the object ref
Update(mem, ref) ==
    With(Obj(mem, ref), LAMBDA tx :
        With(IF IsCoinbase(tx) THEN [err |-> "", mem |-> mem]
             ELSE RemoveInputs(mem, tx.Inputs, 1),
             LAMBDA r :
                IF r.err # "" THEN r
                ELSE [err |-> "",
                      mem |-> AddUTXO(r.mem, tx.ID, Obj(r.mem, ref).Outputs,
                                      ref)]))

\* UTXOSet.GetBalance for a pubkey hash
RECURSIVE SumOver(_, _)
SumOver(S, f) ==
    IF S = {} THEN 0
    ELSE LET x == CHOOSE y \in S : TRUE IN f[x] + SumOver(S \ {x}, f)

LockedValue(outs, pkh) ==
    LET RECURSIVE S(_)
        S(n) == IF n = 0 THEN 0
                ELSE (IF outs[n].PubKeyHash = pkh THEN outs[n].Value ELSE 0)
                     + S(n - 1)
    IN S(Len(outs))

GetBalance(utxo, pkh) ==
    SumOver(DOMAIN utxo, [k \in DOMAIN utxo |-> LockedValue(utxo[k].outs, pkh)])

\* UTXOSet.FindSpendableOutputs(address, amount): the results it may return,
\* one for each order in which range visits the keys of the map.  Within an
\* entry the outputs are visited by index; an output locked with the key is
\* taken while accumulated < amount, and both loops are left once
\* accumulated >= amount.  outputs holds the <<txID, index>> taken.
FindSpendableOutputs(utxo, address, amount) ==
    LET pubKeyHash == DecodeAddress(address)
        RECURSIVE Take(_, _, _, _)
        Take(k, i, acc, taken) ==
            IF i > Len(utxo[k].outs) THEN <<acc, taken>>
            ELSE IF utxo[k].outs[i].PubKeyHash = pubKeyHash /\ acc < amount
            THEN (IF acc + utxo[k].outs[i].Value >= amount
                  THEN <<acc + utxo[k].outs[i].Value,
                         taken \cup {<<k, i - 1>>}>>
                  ELSE Take(k, i + 1, acc + utxo[k].outs[i].Value,
                            taken \cup {<<k, i - 1>>}))
            ELSE Take(k, i + 1, acc, taken)
        RECURSIVE Range(_, _, _)
        Range(keys, acc, taken) ==
            IF keys = {} THEN {<<acc, taken>>}
            ELSE UNION {With(Take(k, 1, acc, taken), LAMBDA t :
                           IF t[1] >= amount THEN {t}
                           ELSE Range(keys \ {k}, t[1], t[2])) : k \in keys}
    IN {IF r[1] < amount
        THEN [err |-> "insufficient funds", accumulated |-> 0, outputs |-> {}]
        ELSE [err |-> "", accumulated |-> r[1], outputs |-> r[2]] :
           r \in Range(DOMAIN utxo, 0, {})}

\* UTXOSet.CountUTXOs
CountUTXOs(utxo) ==
    SumOver(DOMAIN utxo, [k \in DOMAIN utxo |-> Len(utxo[k].outs)])

(* ------------------------------- storage ------------------------------- *)
\* storage.serializeBlock / deserializeBlock (gob): the transactions are
\* written through a cast to []*tx.Transaction and read back with that type
GobBlock(block) ==
    [block EXCEPT !.Transactions = IF block.typed THEN @ ELSE <<>>,
                  !.typed = TRUE]

\* the keys utxo_<txID>_<index> written for the outputs of a block
OutputKeys(txs) ==
    UNION {{<<txs[j].ID, i - 1>> : i \in 1..Len(txs[j].Outputs)} :
              j \in 1..Len(txs)}

\* Storage.SaveBlock
SaveBlock(st, block) ==
    [st EXCEPT !.blocks = (block.Hash :> GobBlock(block)) @@ @]

\* Blockchain.saveBlockToDB: the writes SaveBlock, SaveChainTip,
\* SaveChainHeight, SaveDifficulty, SaveUTXO in this order; failAt = 0 when
\* every write succeeds, else the number of the first write that fails
NumSaveSteps == 5

saveBlockToDB(st, block, height, difficulty, failAt) ==
    LET done(n) == failAt = 0 \/ n < failAt
    IN [err |-> IF failAt = 0 THEN "" ELSE "storage write failed",
        store |->
            [blocks |-> IF done(1) THEN SaveBlock(st, block).blocks
                        ELSE st.blocks,
             tip |-> IF done(2) THEN block.Hash ELSE st.tip,
             height |-> IF done(3) THEN height ELSE st.height,
             difficulty |-> IF done(4) THEN difficulty ELSE st.difficulty,
             utxo |-> IF done(5) /\ block.typed
                      THEN st.utxo \cup OutputKeys(block.Transactions)
                      ELSE st.utxo]]

\* a new LevelDB database
EmptyStore ==
    [blocks |-> [h \in {} |-> Nil], tip |-> Nil, height |-> 0,
     difficulty |-> 0, utxo |-> {}]

(* ----------------------------- chain engine ---------------------------- *)
\* types.Block; typed tells whether Transactions holds a []*tx.Transaction
\* (what AddBlock and gob build) or the []interface{} that encoding/json
\* leaves in the interface{} field
Block(hdr, txs, hash, typed) ==
    [Header |-> hdr, Transactions |-> txs, Hash |-> hash, typed |-> typed]

\* positions <<block, tx>> of the transactions of the chain
TxPositions(blocks) ==
    UNION {{<<bi, ti>> : ti \in 1..Len(blocks[bi].Transactions)} :
              bi \in 1..Len(blocks)}

Before(p, q) == p[1] < q[1] \/ (p[1] = q[1] /\ p[2] <= q[2])

\* Blockchain.FindTransaction: the first transaction of the chain with this
\* ID (Nil when there is none)
FindTransaction(blocks, id) ==
    LET hits == {p \in TxPositions(blocks) :
                    blocks[p[1]].Transactions[p[2]].ID = id}
        first == CHOOSE p \in hits : \A q \in hits : Before(p, q)
    IN IF hits = {} THEN Nil ELSE <<blocks[first[1]].Transactions[first[2]]>>

\* Transaction.Verify reads prevTx.Outputs[input.OutIndex] without a range
\* check: an index outside the outputs of the referenced transaction is a
\* run-time panic
VerifyPanics(blocks, tx) ==
    /\ ~IsCoinbase(tx)
    /\ \A i \in 1..Len(tx.Inputs) : FindTransaction(blocks, tx.Inputs[i].TxID) # Nil
    /\ \E i \in 1..Len(tx.Inputs) :
          LET prev == FindTransaction(blocks, tx.Inputs[i].TxID)[1] IN
          tx.Inputs[i].OutIndex < 0 \/ tx.Inputs[i].OutIndex >= Len(prev.Outputs)

\* Transaction.Verify(prevTxs), prevTxs being looked up in the chain
Verify(blocks, tx) ==
    \/ IsCoinbase(tx)
    \/ /\ \A i \in 1..Len(tx.Inputs) :
             FindTransaction(blocks, tx.Inputs[i].TxID) # Nil
       /\ \A i \in 1..Len(tx.Inputs) :
             LET prev == FindTransaction(blocks, tx.Inputs[i].TxID)[1]
                 pkh == prev.Outputs[tx.Inputs[i].OutIndex + 1].PubKeyHash
             IN VerifySignature(tx.Inputs[i].PubKey, SigHash(tx, i, pkh),
                                tx.Inputs[i].Signature)

\* Blockchain.VerifyTransaction
VerifyTransaction(blocks, tx) ==
    \/ IsCoinbase(tx)
    \/ /\ \A i \in 1..Len(tx.Inputs) :
             FindTransaction(blocks, tx.Inputs[i].TxID) # Nil
       /\ Verify(blocks, tx)

\* ValidateBlock without its check 4 (previous block hash)
ValidateBlockSkipsLinkage(blocks, block, clock) ==
    LET txs == block.Transactions IN
    IF ~PowValidate(block) THEN "invalid proof-of-work"
    ELSE IF HashBlockHeader(block.Header) # block.Hash THEN "block hash mismatch"
    ELSE IF ~block.typed THEN "invalid transaction type"
    ELSE IF BuildMerkleRoot(TxIDs(txs)) # block.Header.MerkleRoot
    THEN "merkle root mismatch"
    ELSE IF block.Header.Timestamp > clock + FutureLimit
    THEN "block timestamp too far in future"
    ELSE IF Len(txs) = 0 THEN "block has no transactions"
    ELSE IF ~IsCoinbase(txs[1]) THEN "first transaction is not coinbase"
    ELSE IF \E i \in 2..Len(txs) : IsCoinbase(txs[i])
    THEN "multiple coinbase transactions"
    ELSE ""

\* ValidateBlock without its checks 6 and 7 (coinbase first, one coinbase)
ValidateBlockSkipsCoinbase(blocks, block, clock) ==
    LET txs == block.Transactions IN
    IF ~PowValidate(block) THEN "invalid proof-of-work"
    ELSE IF HashBlockHeader(block.Header) # block.Hash THEN "block hash mismatch"
    ELSE IF ~block.typed THEN "invalid transaction type"
    ELSE IF BuildMerkleRoot(TxIDs(txs)) # block.Header.MerkleRoot
    THEN "merkle root mismatch"
    ELSE IF Len(blocks) > 0
            /\ block.Header.PrevBlockHash # blocks[Len(blocks)].Hash
    THEN "previous block hash mismatch"
    ELSE IF block.Header.Timestamp > clock + FutureLimit
    THEN "block timestamp too far in future"
    ELSE ""

\* ValidateBlock without its check 3 (merkle root)
ValidateBlockSkipsMerkle(blocks, block, clock) ==
    LET txs == block.Transactions IN
    IF ~PowValidate(block) THEN "invalid proof-of-work"
    ELSE IF HashBlockHeader(block.Header) # block.Hash THEN "block hash mismatch"
    ELSE IF ~block.typed THEN "invalid transaction type"
    ELSE IF Len(blocks) > 0
            /\ block.Header.PrevBlockHash # blocks[Len(blocks)].Hash
    THEN "previous block hash mismatch"
    ELSE IF block.Header.Timestamp > clock + FutureLimit
    THEN "block timestamp too far in future"
    ELSE IF Len(txs) = 0 THEN "block has no transactions"
    ELSE IF ~IsCoinbase(txs[1]) THEN "first transaction is not coinbase"
    ELSE IF \E i \in 2..Len(txs) : IsCoinbase(txs[i])
    THEN "multiple coinbase transactions"
    ELSE ""

\* Blockchain.ValidateBlock: "" or the error of the first failing check
ValidateBlock(blocks, block, clock) ==
    LET txs == block.Transactions IN
    IF ~PowValidate(block) THEN "invalid proof-of-work"
    ELSE IF HashBlockHeader(block.Header) # block.Hash THEN "block hash mismatch"
    ELSE IF ~block.typed THEN "invalid transaction type"
    ELSE IF BuildMerkleRoot(TxIDs(txs)) # block.Header.MerkleRoot
    THEN "merkle root mismatch"
    ELSE IF Len(blocks) > 0
            /\ block.Header.PrevBlockHash # blocks[Len(blocks)].Hash
    THEN "previous block hash mismatch"
    ELSE IF block.Header.Timestamp > clock + FutureLimit
    THEN "block timestamp too far in future"
    ELSE IF Len(txs) = 0 THEN "block has no transactions"
    ELSE IF ~IsCoinbase(txs[1]) THEN "first transaction is not coinbase"
    ELSE IF \E i \in 2..Len(txs) : IsCoinbase(txs[i])
    THEN "multiple coinbase transactions"
    ELSE ""

\* Blockchain.ValidateChain
ValidateChain(blocks) ==
    IF \E i \in 2..Len(blocks) : ~PowValidate(blocks[i])
    THEN "invalid PoW"
    ELSE IF \E i \in 2..Len(blocks) :
               blocks[i].Header.PrevBlockHash # blocks[i - 1].Hash
    THEN "broken chain"
    ELSE IF \E i \in 2..Len(blocks) : ~blocks[i].typed
    THEN "invalid transaction type"
    ELSE IF \E i \in 2..Len(blocks) :
               BuildMerkleRoot(TxIDs(blocks[i].Transactions))
                   # blocks[i].Header.MerkleRoot
    THEN "invalid merkle root"
    ELSE ""

\* adjustDifficulty without the limits 32 and 8
adjustDifficultyNoLimit(blocks, difficulty) ==
    LET blockCount == Len(blocks) IN
    IF blockCount % DifficultyAdjustmentInterval # 0 THEN difficulty
    ELSE IF blockCount < DifficultyAdjustmentInterval THEN difficulty
    ELSE LET timeTaken == blocks[blockCount].Header.Timestamp
                 - blocks[blockCount - DifficultyAdjustmentInterval + 1]
                      .Header.Timestamp
             expectedTime == DifficultyAdjustmentInterval * BlockGenerationInterval
         IN IF 2 * timeTaken < expectedTime THEN difficulty + 1
            ELSE IF timeTaken > expectedTime * 2 THEN difficulty - 1
            ELSE difficulty

\* adjustDifficulty that compares with the expected time itself, not with
\* its half and its double
adjustDifficultyPlainBounds(blocks, difficulty) ==
    LET blockCount == Len(blocks) IN
    IF blockCount % DifficultyAdjustmentInterval # 0 THEN difficulty
    ELSE IF blockCount < DifficultyAdjustmentInterval THEN difficulty
    ELSE LET timeTaken == blocks[blockCount].Header.Timestamp
                 - blocks[blockCount - DifficultyAdjustmentInterval + 1]
                      .Header.Timestamp
             expectedTime == DifficultyAdjustmentInterval * BlockGenerationInterval
         IN IF timeTaken < expectedTime
            THEN (IF difficulty < MaxTargetBits THEN difficulty + 1 ELSE difficulty)
            ELSE IF timeTaken > expectedTime
            THEN (IF difficulty > MinTargetBits THEN difficulty - 1 ELSE difficulty)
            ELSE difficulty

\* Blockchain.adjustDifficulty: the difficulty after the call
adjustDifficulty(blocks, difficulty) ==
    LET blockCount == Len(blocks) IN
    IF blockCount % DifficultyAdjustmentInterval # 0 THEN difficulty
    ELSE IF blockCount < DifficultyAdjustmentInterval THEN difficulty
    ELSE LET lastAdjustmentBlock ==
                 blocks[blockCount - DifficultyAdjustmentInterval + 1]
             currentBlock == blocks[blockCount]
             timeTaken == currentBlock.Header.Timestamp
                              - lastAdjustmentBlock.Header.Timestamp
             expectedTime == DifficultyAdjustmentInterval * BlockGenerationInterval
         IN IF 2 * timeTaken < expectedTime
            THEN (IF difficulty < MaxTargetBits THEN difficulty + 1 ELSE difficulty)
            ELSE IF timeTaken > expectedTime * 2
            THEN (IF difficulty > MinTargetBits THEN difficulty - 1 ELSE difficulty)
            ELSE difficulty

\* the header built and mined by createGenesisBlock and AddBlock
MinedBlock(prev, txs, ts, bits) ==
    With(BlockHeader(prev, BuildMerkleRoot(TxIDs(txs)), ts, bits, 0),
         LAMBDA hdr :
            With(Mine(hdr), LAMBDA m :
                Block([hdr EXCEPT !.Nonce = m.nonce], txs, m.hash, TRUE)))

\* the UTXO update loop of AddBlock over the transactions mem.txs from
\* position j on: it stops at the first Update that fails
RECURSIVE ApplyTxs(_, _)
ApplyTxs(mem, j) ==
    IF j > Len(mem.txs) THEN [err |-> "", mem |-> mem, pre |-> mem.utxo]
    ELSE With(Update(mem, NewRef(j)), LAMBDA r :
            IF r.err # "" THEN [err |-> r.err, mem |-> r.mem, pre |-> mem.utxo]
            ELSE ApplyTxs(r.mem, j + 1))

\* the UTXO rebuild of loadBlockchain and the update loop of
\* processReceivedBlock over the transactions of block bi from position j
\* on: the error of Update is dropped
RECURSIVE ReplayTxs(_, _, _)
ReplayTxs(mem, bi, j) ==
    IF j > Len(mem.blocks[bi].Transactions) THEN mem
    ELSE ReplayTxs(Update(mem, ChainRef(bi, j)).mem, bi, j + 1)

RECURSIVE ReplayBlocks(_, _)
ReplayBlocks(mem, bi) ==
    IF bi > Len(mem.blocks) THEN mem
    ELSE ReplayBlocks(ReplayTxs(mem, bi, 1), bi + 1)

\* once the block under construction is block n of the chain (n = 0: it was
\* dropped) the map entries that share its transactions refer to the chain
Rebind(utxo, n) ==
    [k \in DOMAIN utxo |->
        IF Len(utxo[k].ref) = 2
        THEN [utxo[k] EXCEPT !.ref = IF n = 0 THEN Nil ELSE ChainRef(n, @[2])]
        ELSE utxo[k]]

\* the outputs held by the UTXO map, without the sharing information
UtxoView(utxo) == [k \in DOMAIN utxo |-> utxo[k].outs]

\* the walk of loadBlockchain from the tip back to the genesis block
RECURSIVE WalkBack(_, _)
WalkBack(st, hash) ==
    LET block == st.blocks[hash] IN
    IF block.Header.PrevBlockHash = ZeroHash THEN <<block>>
    ELSE Append(WalkBack(st, block.Header.PrevBlockHash), block)

\* the walk finds every block it asks the store for (GetBlock succeeds)
RECURSIVE Loadable(_, _)
Loadable(st, hash) ==
    /\ hash \in DOMAIN st.blocks
    /\ \/ st.blocks[hash].Header.PrevBlockHash = ZeroHash
       \/ Loadable(st, st.blocks[hash].Header.PrevBlockHash)

\* blockchain.loadBlockchain: the engine state rebuilt from a store
loadBlockchain(st) ==
    With(ReplayBlocks(Mem([k \in {} |-> Nil], WalkBack(st, st.tip), <<>>), 1),
         LAMBDA mem :
            [Blocks |-> mem.blocks, DifficultyTarget |-> st.difficulty,
             UTXOs |-> mem.utxo])

GenesisData == "Genesis Block - Bitcoin-like Cryptocurrency"

\* blockchain.createGenesisBlock at time ts
createGenesisBlock(genesisAddress, ts) ==
    MinedBlock(ZeroHash,
               <<NewCoinbaseTx(genesisAddress, GenesisData, Subsidy)>>,
               ts, DefaultTargetBits)

\* the coinbase built by AddBlock for the block after n blocks
BlockReward(minerAddress, n) ==
    NewCoinbaseTx(minerAddress, "Block " \o ToString(n) \o " reward", Subsidy)

\* NewBlockchain that builds a genesis block whatever the store holds
NewBlockchainAlwaysCreates(genesisAddress, st, ts) ==
    With(createGenesisBlock(genesisAddress, ts), LAMBDA genesisBlock :
        [err |-> "",
         Blocks |-> <<genesisBlock>>,
         DifficultyTarget |-> DefaultTargetBits,
         UTXOs |-> AddUTXO(Mem([k \in {} |-> Nil], <<genesisBlock>>, <<>>),
                           genesisBlock.Transactions[1].ID,
                           genesisBlock.Transactions[1].Outputs,
                           ChainRef(1, 1)).utxo,
         store |-> saveBlockToDB(st, genesisBlock, 1, DefaultTargetBits,
                                 0).store])

\* blockchain.NewBlockchain(genesisAddress, dbPath) at time ts on the store
\* st, every storage write succeeding: the engine it returns and the store
\* it leaves, or the error of loadBlockchain
NewBlockchain(genesisAddress, st, ts) ==
    IF st.tip # Nil
    THEN IF ~Loadable(st, st.tip)
         THEN [err |-> "failed to load block", Blocks |-> <<>>,
               DifficultyTarget |-> 0, UTXOs |-> [k \in {} |-> Nil],
               store |-> st]
         ELSE With(loadBlockchain(st), LAMBDA loaded :
                [err |-> "", Blocks |-> loaded.Blocks,
                 DifficultyTarget |-> loaded.DifficultyTarget,
                 UTXOs |-> loaded.UTXOs, store |-> st])
    ELSE With(createGenesisBlock(genesisAddress, ts), LAMBDA genesisBlock :
            [err |-> "",
             Blocks |-> <<genesisBlock>>,
             DifficultyTarget |-> DefaultTargetBits,
             UTXOs |-> AddUTXO(Mem([k \in {} |-> Nil], <<genesisBlock>>, <<>>),
                               genesisBlock.Transactions[1].ID,
                               genesisBlock.Transactions[1].Outputs,
                               ChainRef(1, 1)).utxo,
             store |-> saveBlockToDB(st, genesisBlock, 1, DefaultTargetBits,
                                     0).store])

(* -------------------------------- state -------------------------------- *)
VARIABLES
    Blocks,            \* Blockchain.Blocks
    DifficultyTarget,  \* Blockchain.DifficultyTarget
    UTXOs,             \* Blockchain.UTXOSet.UTXOs
    store,             \* the LevelDB database behind Blockchain.Storage
    now,               \* the wall clock (seconds)
    faults,            \* operations that failed half-way so far
    restarts,          \* times the node was started again on its store
    peer,              \* a second node: its engine and its place in the
                       \* synchronisation with this node
    server,            \* the gRPC Server: mempool, mining control, loops of
                       \* mineBlocks, subscriptions
    network            \* the Network of this node: peers, the syncing flag
                       \* and the runs of syncWithPeer

vars == <<Blocks, DifficultyTarget, UTXOs, store, now, faults, restarts, peer,
          server, network>>

\* the number of non-coinbase transactions in a block list
RECURSIVE ChainTxs(_)
ChainTxs(blocks) ==
    IF Len(blocks) = 0 THEN 0
    ELSE Cardinality({i \in 1..Len(blocks[Len(blocks)].Transactions) :
                         ~IsCoinbase(blocks[Len(blocks)].Transactions[i])})
         + ChainTxs(SubSeq(blocks, 1, Len(blocks) - 1))

(* ------------------------ transactions submitted ----------------------- *)
\* the outputs <<id, index>> wallets refer to: those of the genesis coinbase
\* and of the transactions submitted since (later block rewards stay unspent)
Refs(blocks) ==
    UNION {{<<blocks[p[1]].Transactions[p[2]].ID, i - 1>> :
               i \in 1..Len(blocks[p[1]].Transactions[p[2]].Outputs)} :
              p \in {q \in TxPositions(blocks) :
                        q = <<1, 1>>
                        \/ ~IsCoinbase(blocks[q[1]].Transactions[q[2]])}}

OtherKey(k) == CHOOSE o \in Keys : o # k

\* the outputs a wallet k pays: everything to the other wallet, or an
\* amount to the other wallet and change to itself
PayAll(k) == <<TxOutput(Subsidy, PublicKeyHash(PubKeyOf(OtherKey(k))))>>
PaySplit(k) == <<TxOutput(SendAmount, PublicKeyHash(PubKeyOf(OtherKey(k)))),
                 TxOutput(Subsidy - SendAmount, PublicKeyHash(PubKeyOf(k)))>>

UnsignedTx(refs, k, outs) ==
    NewTransaction([i \in 1..Len(refs) |->
                       TxInput(refs[i][1], refs[i][2], Nil, PubKeyOf(k))],
                   outs)

\* Transaction.Sign(wallet, prevTxs) on a transaction built by
\* NewTransaction, prevTxs being looked up in the chain as CreateTransaction
\* does
SignedTx(blocks, refs, k, outs) ==
    LET tx == UnsignedTx(refs, k, outs) IN
    [tx EXCEPT !.Inputs =
        [i \in 1..Len(refs) |->
            LET prev == FindTransaction(blocks, refs[i][1])[1]
                pkh == prev.Outputs[refs[i][2] + 1].PubKeyHash
            IN [tx.Inputs[i] EXCEPT !.Signature = Sign(k, SigHash(tx, i, pkh))]]]

UnknownTxID == TxHash(<<>>, <<>>)

\* the wallet an output of the chain is locked to
OwnerOf(blocks, ref) ==
    FindTransaction(blocks, ref[1])[1].Outputs[ref[2] + 1].PubKeyHash[2]

\* the transactions a client may submit in the current state: the miner's
\* wallet spends an output and keeps the change; the other wallet signs a
\* spend of an output, whoever owns it, for the full subsidy; the owner of an
\* output signs a transaction that names it twice, or it and a later output
\* of the same transaction; and an unsigned spend, a transaction without
\* inputs, a spend of an unknown transaction, a transaction built like a
\* coinbase; and the miner's spend of the genesis output signed with a
\* signature whose s has a leading zero byte
CandidateTxs(blocks) ==
    LET other == OtherKey(MinerKey)
        genesisRef == <<blocks[1].Transactions[1].ID, 0>>
    IN {SignedTx(blocks, <<r>>, MinerKey, PaySplit(MinerKey)) : r \in Refs(blocks)}
       \cup {SignedTx(blocks, <<r>>, other, PayAll(other)) : r \in Refs(blocks)}
       \cup {SignedTx(blocks, <<p[1], p[2]>>, OwnerOf(blocks, p[1]),
                       PayAll(OwnerOf(blocks, p[1]))) :
               p \in {q \in Refs(blocks) \X Refs(blocks) :
                         q[1][1] = q[2][1] /\ q[1][2] <= q[2][2]}}
       \cup {UnsignedTx(<<genesisRef>>, MinerKey, PayAll(MinerKey)),
             UnsignedTx(<<>>, MinerKey, PayAll(MinerKey)),
             UnsignedTx(<<<<UnknownTxID, 0>>>>, MinerKey, PayAll(MinerKey)),
             NewCoinbaseTx(AddressOf(other), "extra", Subsidy)}
       \cup {[t EXCEPT !.Inputs[1].Signature =
                          Signature(@[2], @[3], ScalarBytes, ScalarBytes - 1)] :
                t \in {SignedTx(blocks, <<genesisRef>>, MinerKey,
                                PaySplit(MinerKey))}}

\* the candidate lists handed to AddBlock
CandidateLists(blocks) ==
    LET C == CandidateTxs(blocks)
        room == MaxChainTxs - ChainTxs(blocks)
        longest == IF room < MaxListLen THEN room ELSE MaxListLen
    IN UNION {[1..n -> C] : n \in 0..longest}

(* ------------------------------- actions ------------------------------- *)
\* what a call leaves behind: the error it returns ("" for nil) and the
\* engine state after it
Outcome(err, blocks, difficulty, utxo, st) ==
    [err |-> err, Blocks |-> blocks, DifficultyTarget |-> difficulty,
     UTXOs |-> utxo, store |-> st]

\* the second node before it is started
NoPeer ==
    [phase |-> "off",
     bc |-> Outcome("", <<>>, 0, [k \in {} |-> Nil], EmptyStore),
     startHeight |-> 0, blocks |-> <<>>]

\* NewBlockchain with the miner's address on a new database
\* grpc.NewServer: empty mempool, not mining, no subscriber.  stopMining
\* names a channel (0: nil), made counts the channels made so far, closed
\* holds the closed ones, loops holds the goroutines running mineBlocks
NewServer ==
    [mempool |-> <<>>, isMining |-> FALSE, stopMining |-> 0, made |-> 0,
     closed |-> {}, minerAddress |-> Nil, blocksMined |-> 0, loops |-> <<>>,
     txSubs |-> <<>>, blockSubs |-> <<>>]

\* p2p.NewNetwork: no peer, not syncing; syncs holds the goroutines running
\* syncWithPeer, broadcasts counts the calls of BroadcastBlock, received
\* holds the blocks of the calls of processReceivedBlock that have passed
\* the checks and have not appended yet
NewNetwork ==
    [peers |-> {}, syncing |-> FALSE, syncs |-> <<>>, broadcasts |-> 0,
     received |-> <<>>]

Init ==
    \E bc \in {NewBlockchain(AddressOf(MinerKey), EmptyStore, 0)} :
       /\ Blocks = bc.Blocks
       /\ DifficultyTarget = bc.DifficultyTarget
       /\ UTXOs = bc.UTXOs
       /\ store = bc.store
       /\ now = 0
       /\ faults = 0
       /\ restarts = 0
       /\ peer = NoPeer
       /\ server = NewServer
       /\ network = NewNetwork

\* Blockchain.AddBlock(transactions, minerAddress) run in the current state;
\* failAt is the write of saveBlockToDB that fails (0: none)
AddBlockOutcome(transactions, minerAddress, failAt) ==
    LET prevBlock == Blocks[Len(Blocks)]
        coinbaseTx == BlockReward(minerAddress, Len(Blocks))
        allTxs == <<coinbaseTx>> \o transactions
    IN
    IF \E i \in 1..Len(transactions) : ~VerifyTransaction(Blocks, transactions[i])
    THEN Outcome("invalid transaction", Blocks, DifficultyTarget, UTXOs, store)
    ELSE
    With(adjustDifficulty(Blocks, DifficultyTarget), LAMBDA difficulty :
    With(MinedBlock(prevBlock.Hash, allTxs, now, difficulty), LAMBDA newBlock :
        IF ValidateBlock(Blocks, newBlock, now) # ""
        THEN Outcome("block validation failed", Blocks, difficulty, UTXOs, store)
        ELSE
        With(ApplyTxs(Mem(UTXOs, Blocks, allTxs), 1), LAMBDA applied :
            IF applied.err # ""
            THEN Outcome("failed to update UTXO set", applied.mem.blocks,
                         difficulty, Rebind(applied.mem.utxo, 0), store)
            ELSE
            LET block == [newBlock EXCEPT !.Transactions = applied.mem.txs]
                blocks == Append(applied.mem.blocks, block)
            IN With(saveBlockToDB(store, block, Len(blocks), difficulty, failAt),
                    LAMBDA saved :
                       Outcome(IF saved.err = "" THEN ""
                               ELSE "failed to save block",
                               blocks, difficulty,
                               Rebind(applied.mem.utxo, Len(blocks)),
                               saved.store)))))

\* failAt names a write of a call that gets as far as saveBlockToDB; a call
\* that fails after it changed the state counts as a fault
AddBlock(transactions, minerAddress, failAt) ==
    /\ \A i \in 1..Len(transactions) : ~VerifyPanics(Blocks, transactions[i])
    /\ \E out \in {AddBlockOutcome(transactions, minerAddress, failAt)} :
          LET halfway == failAt # 0 \/ out.err = "failed to update UTXO set"
          IN /\ failAt # 0 => out.err = "failed to save block"
             /\ halfway => faults < MaxFaults
             /\ Blocks' = out.Blocks
             /\ DifficultyTarget' = out.DifficultyTarget
             /\ UTXOs' = out.UTXOs
             /\ store' = out.store
             /\ faults' = IF halfway THEN faults + 1 ELSE faults
    /\ UNCHANGED <<now, restarts, peer,
                   server, network>>

\* Blockchain.GetBlockByHash finds a block
KnownBlock(blocks, hash) == \E i \in 1..Len(blocks) : blocks[i].Hash = hash

\* Network.processReceivedBlock(block) on the engine bc at time clock; err
\* names why the block was dropped
processReceivedBlockOn(bc, clock, block) ==
    IF KnownBlock(bc.Blocks, block.Hash)
    THEN [bc EXCEPT !.err = "known"]
    ELSE
    With(ValidateBlock(bc.Blocks, block, clock), LAMBDA verr :
        IF verr # ""
        THEN [bc EXCEPT !.err = verr]
        ELSE
        With(ReplayTxs(Mem(bc.UTXOs, Append(bc.Blocks, block), <<>>),
                       Len(bc.Blocks) + 1, 1),
             LAMBDA mem :
                Outcome("", mem.blocks, bc.DifficultyTarget, mem.utxo,
                        SaveBlock(bc.store, mem.blocks[Len(mem.blocks)]))))

\* Network.processReceivedBlock(block) run in the current state
processReceivedBlockOutcome(block) ==
    processReceivedBlockOn(Outcome("", Blocks, DifficultyTarget, UTXOs, store),
                           now, block)

processReceivedBlock(block) ==
    /\ \E out \in {processReceivedBlockOutcome(block)} :
          /\ Blocks' = out.Blocks
          /\ DifficultyTarget' = out.DifficultyTarget
          /\ UTXOs' = out.UTXOs
          /\ store' = out.store
    /\ UNCHANGED <<now, faults, restarts, peer,
                   server, network>>

\* encoding/json round trip of a types.Block (BroadcastBlock, then
\* handleBlockStream or downloadBlocks): Transactions is an interface{}
\* field, so it comes back as []interface{}
JSONBlock(block) == [block EXCEPT !.typed = FALSE]

\* a block whose header, with the merkle root root, is mined as it stands
MinedOver(prev, root, txs, ts, bits) ==
    With(BlockHeader(prev, root, ts, bits, 0), LAMBDA hdr :
        With(Mine(hdr), LAMBDA m :
            Block([hdr EXCEPT !.Nonce = m.nonce], txs, m.hash, TRUE)))

\* the blocks a peer may build on what it knows of this chain: a well-formed
\* block with the transactions txs and a coinbase of value reward, mined at
\* bits, and a defect
PeerBlock(txs, reward, bits, defect) ==
    LET tip == Blocks[Len(Blocks)]
        coinbaseTx == NewCoinbaseTx(AddressOf(OtherKey(MinerKey)),
                                     "peer", reward)
        all == IF defect = "no coinbase" THEN txs
               ELSE IF defect = "two coinbase"
               THEN <<coinbaseTx, coinbaseTx>> \o txs
               ELSE <<coinbaseTx>> \o txs
        prev == IF defect = "prev" THEN ZeroHash ELSE tip.Hash
        ts == IF defect = "future" THEN now + FutureLimit + TickSeconds ELSE now
    IN With(MinedBlock(prev, all, ts, bits), LAMBDA good :
        LET other == [good.Header EXCEPT !.Nonce = (@ + 1) % MaxNonce]
        IN IF defect = "merkle"
           THEN [good EXCEPT !.Header.MerkleRoot = ZeroHash]
           ELSE IF defect = "hash"
           THEN [good EXCEPT !.Hash = HashBlockHeader(other)]
           ELSE IF defect = "nonce"
           THEN [good EXCEPT !.Header = other, !.Hash = HashBlockHeader(other)]
           ELSE IF defect = "root"
           THEN MinedOver(prev, ZeroHash, all, ts, bits)
           ELSE good)

Defects == {"no coinbase", "two coinbase", "prev", "future", "merkle",
            "hash", "nonce", "root"}

\* the transactions of a peer's block: none, or a spend nobody signed
PeerLists(blocks) ==
    {<<>>} \cup (IF ChainTxs(blocks) < MaxChainTxs
                 THEN {<<UnsignedTx(<<<<blocks[1].Transactions[1].ID, 0>>>>,
                                    MinerKey, PayAll(MinerKey))>>}
                 ELSE {})

\* <<transactions, reward, difficulty bits, defect>> of the peer's blocks
PeerShapes ==
    {<<txs, Subsidy, DifficultyTarget, "">> : txs \in PeerLists(Blocks)}
    \cup {<<<<>>, 2 * Subsidy, DifficultyTarget, "">>}
    \cup {<<<<>>, Subsidy, bits, "">> : bits \in {0, HashBits + 1}}
    \cup {<<<<>>, Subsidy, DifficultyTarget, d>> : d \in Defects}

PeerBlocks ==
    {PeerBlock(s[1], s[2], s[3], s[4]) : s \in PeerShapes} \cup {Blocks[1]}

\* a block handed to processReceivedBlock with its transactions typed
ReceiveBlock ==
    /\ Len(Blocks) < MaxBlocks
    /\ \E block \in PeerBlocks : processReceivedBlock(block)

\* Network.handleBlockStream: a block decoded from a peer's message
handleBlockStream ==
    /\ Len(Blocks) < MaxBlocks
    /\ \E block \in PeerBlocks : processReceivedBlock(JSONBlock(block))

\* Close, then NewBlockchain on the same store with any genesis address.
\* When a block of the walk is missing NewBlockchain returns an error and
\* there is no engine to go on with.
Reload ==
    /\ restarts < MaxRestarts
    /\ restarts' = restarts + 1
    /\ store.tip # Nil
    /\ Loadable(store, store.tip)
    /\ \E k \in Keys :
          \E bc \in {NewBlockchain(AddressOf(k), store, now)} :
             /\ Blocks' = bc.Blocks
             /\ DifficultyTarget' = bc.DifficultyTarget
             /\ UTXOs' = bc.UTXOs
             /\ store' = bc.store
    /\ UNCHANGED <<now, faults, peer,
                   server, network>>

\* time passes
Tick ==
    /\ now < MaxTicks * TickSeconds
    /\ now' = now + TickSeconds
    /\ UNCHANGED <<Blocks, DifficultyTarget, UTXOs, store, faults, restarts,
                   peer,
                   server, network>>

\* the miner's wallet address gets the reward of every block mined here
MineBlock ==
    /\ Len(Blocks) < MaxBlocks
    /\ \E transactions \in CandidateLists(Blocks) :
          \E failAt \in 0..NumSaveSteps :
              AddBlock(transactions, AddressOf(MinerKey), failAt)

Next ==
    \/ MineBlock
    \/ ReceiveBlock
    \/ handleBlockStream
    \/ Reload

Spec == Init /\ [][Next]_vars

\* the node as the binaries run it: every block of a peer reaches
\* processReceivedBlock through encoding/json, and time passes
LocalNext ==
    \/ MineBlock
    \/ handleBlockStream
    \/ Reload
    \/ Tick

LocalSpec == Init /\ [][LocalNext]_vars

(* ------------------------ concurrent receptions ------------------------ *)
\* Network.processReceivedBlock as the goroutines of the stream handlers run
\* it (handleBlockStream is started per stream and takes no lock, and the
\* engine has none): first the checks of a call, GetBlockByHash and
\* ValidateBlock, on the chain as it is then; later its append, UTXO
\* update and Storage.SaveBlock, on the chain as it is then
processReceivedBlockSteps ==
    \/ /\ Len(Blocks) < MaxBlocks
       /\ Len(network.received) < MaxReceiving
       /\ \E block \in PeerBlocks :
             /\ ~KnownBlock(Blocks, block.Hash)
             /\ ValidateBlock(Blocks, block, now) = ""
             /\ network' = [network EXCEPT !.received = Append(@, block)]
       /\ UNCHANGED <<Blocks, DifficultyTarget, UTXOs, store, now, faults,
                      restarts, peer, server>>
    \/ /\ \E i \in 1..Len(network.received) :
             \E mem \in {ReplayTxs(Mem(UTXOs,
                                       Append(Blocks, network.received[i]),
                                       <<>>),
                                   Len(Blocks) + 1, 1)} :
                /\ Blocks' = mem.blocks
                /\ UTXOs' = mem.utxo
                /\ store' = SaveBlock(store, mem.blocks[Len(mem.blocks)])
                /\ network' = [network EXCEPT
                                 !.received = SubSeq(@, 1, i - 1)
                                                 \o SubSeq(@, i + 1, Len(@))]
       /\ UNCHANGED <<DifficultyTarget, now, faults, restarts, peer, server>>

\* block receptions of several streams and the AddBlock calls of this node
RaceSpec ==
    Init /\ [][\/ processReceivedBlockSteps
               \/ \E transactions \in {<<>>} :
                     /\ Len(Blocks) < MaxBlocks
                     /\ AddBlock(transactions, AddressOf(MinerKey), 0)]_vars

(* --------------------------- two-node scenario ------------------------- *)
\* This node appends SyncBlocks blocks on its fresh store; then a second node
\* is started on a fresh store of its own and connects to it.

\* Blockchain.AddBlock on this node while the second node is not started
AppendBeforeSync ==
    /\ peer.phase = "off"
    /\ Len(Blocks) < SyncBlocks + 1
    /\ \E transactions \in CandidateLists(Blocks) :
          AddBlock(transactions, AddressOf(MinerKey), 0)

\* the second node is started: NewBlockchain on its own empty store with
\* its genesis address, then NewNetwork
StartPeer ==
    /\ peer.phase = "off"
    /\ Len(Blocks) = SyncBlocks + 1
    /\ \E k \in Keys :
          peer' = [peer EXCEPT !.phase = "started",
                               !.bc = NewBlockchain(AddressOf(k), EmptyStore,
                                                    now)]
    /\ UNCHANGED <<Blocks, DifficultyTarget, UTXOs, store, now, faults,
                   restarts,
                   server, network>>

\* Network.ConnectToPeer on the second node: the connection is made and
\* go syncWithPeer is started
ConnectToPeer ==
    /\ peer.phase = "started"
    /\ peer' = [peer EXCEPT !.phase = "connected"]
    /\ UNCHANGED <<Blocks, DifficultyTarget, UTXOs, store, now, faults,
                   restarts,
                   server, network>>

\* Network.syncWithPeer on the second node: it asks for the height of this
\* node (handleSyncStream, MsgTypeGetHeight, answers Height()) and, when
\* that is more than its own, downloadBlocks sends the request for the
\* blocks from its own height on
syncWithPeer ==
    /\ peer.phase = "connected"
    /\ LET peerHeight == Len(Blocks)
           ourHeight == Len(peer.bc.Blocks)
       IN peer' = IF peerHeight > ourHeight
                  THEN [peer EXCEPT !.phase = "requested",
                                    !.startHeight = ourHeight]
                  ELSE [peer EXCEPT !.phase = "done"]
    /\ UNCHANGED <<Blocks, DifficultyTarget, UTXOs, store, now, faults,
                   restarts,
                   server, network>>

\* Network.handleSyncStream on this node, MsgTypeGetBlocks: the blocks
\* GetBlock(i) for startHeight <= i < Height(), sent through encoding/json
handleSyncStream ==
    /\ peer.phase = "requested"
    /\ peer' = [peer EXCEPT
                  !.phase = "answered",
                  !.blocks = [i \in 1..(Len(Blocks) - peer.startHeight) |->
                                 JSONBlock(Blocks[peer.startHeight + i])]]
    /\ UNCHANGED <<Blocks, DifficultyTarget, UTXOs, store, now, faults,
                   restarts,
                   server, network>>

\* the loop of downloadBlocks: processReceivedBlock for each block received
RECURSIVE ProcessBlocks(_, _, _, _)
ProcessBlocks(bc, clock, blocks, i) ==
    IF i > Len(blocks) THEN bc
    ELSE ProcessBlocks(processReceivedBlockOn(bc, clock, blocks[i]), clock,
                       blocks, i + 1)

\* Network.downloadBlocks on the second node, from the response on
downloadBlocks ==
    /\ peer.phase = "answered"
    /\ peer' = [peer EXCEPT !.phase = "done",
                            !.bc = ProcessBlocks(peer.bc, now, peer.blocks, 1)]
    /\ UNCHANGED <<Blocks, DifficultyTarget, UTXOs, store, now, faults,
                   restarts,
                   server, network>>

SyncNext ==
    \/ AppendBeforeSync
    \/ Tick
    \/ StartPeer
    \/ ConnectToPeer
    \/ syncWithPeer
    \/ handleSyncStream
    \/ downloadBlocks

\* the goroutine of syncWithPeer is scheduled and the streams between the
\* nodes deliver: a step of the synchronisation that stays possible is taken
SyncSpec ==
    /\ Init
    /\ [][SyncNext]_vars
    /\ WF_vars(ConnectToPeer)
    /\ WF_vars(syncWithPeer)
    /\ WF_vars(handleSyncStream)
    /\ WF_vars(downloadBlocks)

(* -------------------------- concurrent syncs --------------------------- *)
\* Network.ConnectToPeer on this node: the peer is recorded and
\* go syncWithPeer is started
ConnectToPeerHere ==
    /\ Len(network.syncs) < MaxSyncs
    /\ network' = [network EXCEPT
                     !.peers = @ \cup {"peer"},
                     !.syncs = Append(@, [pc |-> "start", entered |-> FALSE,
                                          opened |-> FALSE])]
    /\ UNCHANGED <<Blocks, DifficultyTarget, UTXOs, store, now, faults,
                   restarts, peer, server>>

\* syncWithPeer that does not look at the syncing flag
syncEnterIgnoresFlag(net, i) ==
    [net EXCEPT !.syncing = TRUE, !.syncs[i].pc = "open",
                !.syncs[i].entered = TRUE]

\* syncWithPeer under syncMutex: return when syncing is set, else set it
syncEnter(net, i) ==
    IF net.syncing
    THEN [net EXCEPT !.syncs[i].pc = "returned"]
    ELSE [net EXCEPT !.syncing = TRUE, !.syncs[i].pc = "open",
                     !.syncs[i].entered = TRUE]

\* a return of syncWithPeer after the flag was set: the deferred function
\* clears the flag under syncMutex
syncReturn(net, i) ==
    [net EXCEPT !.syncing = FALSE, !.syncs[i].pc = "returned"]

\* the goroutines of syncWithPeer at position pc
SyncsAt(pc) == {i \in 1..Len(network.syncs) : network.syncs[i].pc = pc}

syncCheckFlag ==
    /\ \E i \in SyncsAt("start") : network' = syncEnter(network, i)
    /\ UNCHANGED <<Blocks, DifficultyTarget, UTXOs, store, now, faults,
                   restarts, peer, server>>

\* host.NewStream on the sync protocol fails or gives a stream
syncOpenStream ==
    /\ \E i \in SyncsAt("open") : \E ok \in BOOLEAN :
          network' = IF ok
                     THEN [network EXCEPT !.syncs[i].pc = "request",
                                          !.syncs[i].opened = TRUE]
                     ELSE syncReturn(network, i)
    /\ UNCHANGED <<Blocks, DifficultyTarget, UTXOs, store, now, faults,
                   restarts, peer, server>>

\* the height request is written to the stream, or the write fails
syncRequestHeight ==
    /\ \E i \in SyncsAt("request") : \E ok \in BOOLEAN :
          network' = IF ok
                     THEN [network EXCEPT !.syncs[i].pc = "response"]
                     ELSE syncReturn(network, i)
    /\ UNCHANGED <<Blocks, DifficultyTarget, UTXOs, store, now, faults,
                   restarts, peer, server>>

\* the answer is read, or the read fails; the peer is as high as this node
\* or one block higher
syncReadHeight ==
    /\ \E i \in SyncsAt("response") : \E ok \in BOOLEAN :
          \E peerHeight \in {Len(Blocks), Len(Blocks) + 1} :
             network' = IF ok /\ peerHeight > Len(Blocks)
                        THEN [network EXCEPT !.syncs[i].pc = "download"]
                        ELSE syncReturn(network, i)
    /\ UNCHANGED <<Blocks, DifficultyTarget, UTXOs, store, now, faults,
                   restarts, peer, server>>

\* downloadBlocks: the block the peer answers with, decoded from JSON, is
\* handed to processReceivedBlock; then syncWithPeer returns
syncDownload ==
    /\ \E i \in SyncsAt("download") : \E block \in PeerBlocks :
          \E out \in {processReceivedBlockOutcome(JSONBlock(block))} :
             /\ Blocks' = out.Blocks
             /\ DifficultyTarget' = out.DifficultyTarget
             /\ UTXOs' = out.UTXOs
             /\ store' = out.store
             /\ network' = syncReturn(network, i)
    /\ UNCHANGED <<now, faults, restarts, peer, server>>

ConcurrentSyncNext ==
    \/ ConnectToPeerHere
    \/ syncCheckFlag
    \/ syncOpenStream
    \/ syncRequestHeight
    \/ syncReadHeight
    \/ syncDownload

ConcurrentSyncSpec == Init /\ [][ConcurrentSyncNext]_vars

(* ------------------------------ broadcast ------------------------------ *)
\* Network.BroadcastBlock(block) on this node: the block goes through
\* encoding/json to every peer of n.peers (sendMessage); the second node,
\* when it is one of them and runs, gets it in handleBlockStream and hands
\* it to processReceivedBlock, which calls the block handler after it
\* appended the block
BroadcastBlock ==
    /\ network.broadcasts < MaxBroadcasts
    /\ \E i \in 1..Len(Blocks) :
          /\ network' = [network EXCEPT !.broadcasts = @ + 1]
          /\ peer' = IF "peer" \in network.peers /\ peer.phase # "off"
                     THEN [peer EXCEPT
                             !.bc = processReceivedBlockOn(
                                       peer.bc, now, JSONBlock(Blocks[i]))]
                     ELSE peer
    /\ UNCHANGED <<Blocks, DifficultyTarget, UTXOs, store, now, faults,
                   restarts, server>>

BroadcastNext ==
    \/ AppendBeforeSync
    \/ StartPeer
    \/ ConnectToPeer
    \/ ConnectToPeerHere
    \/ BroadcastBlock

BroadcastSpec == Init /\ [][BroadcastNext]_vars

(* ----------------------------- gRPC server ----------------------------- *)
\* fmt.Sprintf("%x", b), and a string that is no hexadecimal text
Hex(b) == <<"hex", b>>
NoHex == <<"text">>

\* fmt.Sscanf(s, "%x", &b) into an empty byte string: the bytes of a
\* hexadecimal text; b is left empty when s is empty or not hexadecimal
Unhex(s) == IF Len(s) = 2 /\ s[1] = "hex" THEN s[2] ELSE <<>>

\* Server.txToProto (the timestamp is not read back)
txToProto(transaction) ==
    [Id |-> Hex(transaction.ID),
     Inputs |-> [i \in 1..Len(transaction.Inputs) |->
                   [TxId |-> Hex(transaction.Inputs[i].TxID),
                    Vout |-> transaction.Inputs[i].OutIndex,
                    Signature |-> Hex(transaction.Inputs[i].Signature),
                    PublicKey |-> Hex(transaction.Inputs[i].PubKey)]],
     Outputs |-> [i \in 1..Len(transaction.Outputs) |->
                    [Value |-> transaction.Outputs[i].Value,
                     PublicKeyHash |-> Hex(transaction.Outputs[i].PubKeyHash)]]]

\* Server.protoToTx: the ID is the one of the message, it is not computed
protoToTx(pbTx) ==
    [ID |-> Unhex(pbTx.Id),
     Inputs |-> [i \in 1..Len(pbTx.Inputs) |->
                   TxInput(Unhex(pbTx.Inputs[i].TxId), pbTx.Inputs[i].Vout,
                           Unhex(pbTx.Inputs[i].Signature),
                           Unhex(pbTx.Inputs[i].PublicKey))],
     Outputs |-> [i \in 1..Len(pbTx.Outputs) |->
                    TxOutput(pbTx.Outputs[i].Value,
                             Unhex(pbTx.Outputs[i].PublicKeyHash))]]

\* the requests of clients: no transaction, a signed spend of the genesis
\* output, and the message of TestSubmitTransaction
SubmitRequests ==
    {Nil,
     txToProto(SignedTx(Blocks, <<<<Blocks[1].Transactions[1].ID, 0>>>>,
                        MinerKey, PaySplit(MinerKey))),
     [Id |-> NoHex,
      Inputs |-> <<[TxId |-> NoHex, Vout |-> 0, Signature |-> NoHex,
                    PublicKey |-> NoHex]>>,
      Outputs |-> <<[Value |-> 100, PublicKeyHash |-> NoHex]>>]}

\* notification that gives up at the first full channel
notifyUntilFull(subs, item) ==
    [i \in 1..Len(subs) |->
        IF \A j \in 1..i : Len(subs[j]) < SubCapacity
        THEN Append(subs[i], item) ELSE subs[i]]

\* Server.notifyBlockSubscribers / notifyTxSubscribers: for every channel,
\* select { case ch <- item: default: }
notifySubscribers(subs, item) ==
    [i \in 1..Len(subs) |->
        IF Len(subs[i]) < SubCapacity THEN Append(subs[i], item) ELSE subs[i]]

\* SubmitTransaction that answers Accepted and leaves the mempool alone
SubmitTransactionKeepsNothing(srv, req) ==
    [Accepted |-> req # Nil, server |-> srv]

\* Server.SubmitTransaction(req) on the server srv: the answer and the
\* server afterwards
SubmitTransactionOutcome(srv, req) ==
    IF req = Nil
    THEN [Accepted |-> FALSE, server |-> srv]
    ELSE With(protoToTx(req), LAMBDA transaction :
            [Accepted |-> TRUE,
             server |-> [srv EXCEPT
                           !.mempool = Append(@, transaction),
                           !.txSubs = notifySubscribers(@, transaction)]])

SubmitTransaction ==
    /\ Len(server.mempool) < MaxMempool
    /\ \E req \in SubmitRequests :
          server' = SubmitTransactionOutcome(server, req).server
    /\ UNCHANGED <<Blocks, DifficultyTarget, UTXOs, store, now, faults,
                   restarts, peer, network>>

\* Server.SendTransaction(from, to, amount) for a wallet the server holds:
\* the inputs are the outputs FindSpendableOutputs took, the recipient gets
\* amount and the sender accumulated - amount when that is positive.
\* Transaction.Sign is called with an empty prevTxs map, so it fails
\* ("previous transaction not found") as soon as there is an input; else
\* the transaction goes to the mempool and to the subscribers.
SendTransaction ==
    /\ Len(server.mempool) < MaxMempool
    /\ \E amount \in {-MaxNegative, SendAmount} :
       \E found \in FindSpendableOutputs(UTXOs, AddressOf(MinerKey), amount) :
          LET to == DecodeAddress(AddressOf(OtherKey(MinerKey)))
              from == DecodeAddress(AddressOf(MinerKey))
              outputs == <<TxOutput(amount, to)>>
                            \o (IF found.accumulated > amount
                                THEN <<TxOutput(found.accumulated - amount,
                                                from)>>
                                ELSE <<>>)
              transaction == NewTransaction(<<>>, outputs)
          IN server' = IF found.err # "" \/ found.outputs # {}
                       THEN server
                       ELSE [server EXCEPT
                               !.mempool = Append(@, transaction),
                               !.txSubs = notifySubscribers(@, transaction)]
    /\ UNCHANGED <<Blocks, DifficultyTarget, UTXOs, store, now, faults,
                   restarts, peer, network>>

\* Server.StartMining: refused while isMining; else a new stopMining channel
\* is made and go mineBlocks is started
StartMining ==
    /\ server.made < MaxLoops
    /\ server' = IF server.isMining THEN server
                 ELSE [server EXCEPT
                         !.isMining = TRUE,
                         !.minerAddress = AddressOf(MinerKey),
                         !.made = @ + 1,
                         !.stopMining = server.made + 1,
                         !.loops = Append(@, [pc |-> "select",
                                              ch |-> server.made + 1,
                                              txs |-> <<>>])]
    /\ UNCHANGED <<Blocks, DifficultyTarget, UTXOs, store, now, faults,
                   restarts, peer, network>>

\* Server.StopMining / StopMiningInternal
StopMining ==
    /\ server' = IF server.isMining
                 THEN [server EXCEPT !.closed = @ \cup {server.stopMining},
                                     !.isMining = FALSE]
                 ELSE server
    /\ UNCHANGED <<Blocks, DifficultyTarget, UTXOs, store, now, faults,
                   restarts, peer, network>>

\* the channels a loop of mineBlocks may find in s.stopMining: the field is
\* written under miningMu and read without it, so the loop reads the
\* channel of the last StartMining or the one it was started with
StopChannels(i) == {server.stopMining, server.loops[i].ch}

\* mineBlocks: select { case <-s.stopMining: return; default: ... }
mineSelect ==
    /\ \E i \in 1..Len(server.loops) : \E ch \in StopChannels(i) :
          /\ server.loops[i].pc = "select"
          /\ server' = [server EXCEPT
                          !.loops[i].pc = IF ch \in server.closed
                                          THEN "returned" ELSE "drain"]
    /\ UNCHANGED <<Blocks, DifficultyTarget, UTXOs, store, now, faults,
                   restarts, peer, network>>

\* mineBlocks under mempoolMu: the mempool is copied and cleared
mineDrain ==
    /\ \E i \in 1..Len(server.loops) :
          /\ server.loops[i].pc = "drain"
          /\ server' = [server EXCEPT !.loops[i].pc = "mine",
                                      !.loops[i].txs = server.mempool,
                                      !.mempool = <<>>]
    /\ UNCHANGED <<Blocks, DifficultyTarget, UTXOs, store, now, faults,
                   restarts, peer, network>>

\* mineBlocks: AddBlock(txs, s.minerAddress); on an error the loop sleeps
\* and goes on, else blocksMined is counted and the block is notified
mineAddBlock ==
    /\ Len(Blocks) < MaxBlocks
    /\ \E i \in 1..Len(server.loops) :
          /\ server.loops[i].pc = "mine"
          /\ \A j \in 1..Len(server.loops[i].txs) :
                ~VerifyPanics(Blocks, server.loops[i].txs[j])
          /\ \E out \in {AddBlockOutcome(server.loops[i].txs,
                                          server.minerAddress, 0)} :
                LET halfway == out.err = "failed to update UTXO set"
                IN /\ halfway => faults < MaxFaults
                   /\ Blocks' = out.Blocks
                   /\ DifficultyTarget' = out.DifficultyTarget
                   /\ UTXOs' = out.UTXOs
                   /\ store' = out.store
                   /\ faults' = IF halfway THEN faults + 1 ELSE faults
                   /\ server' =
                        IF out.err # ""
                        THEN [server EXCEPT !.loops[i].pc = "select",
                                            !.loops[i].txs = <<>>]
                        ELSE [server EXCEPT
                                !.loops[i].pc = "select",
                                !.loops[i].txs = <<>>,
                                !.blocksMined = @ + 1,
                                !.blockSubs =
                                   notifySubscribers(
                                      @, out.Blocks[Len(out.Blocks)])]
    /\ UNCHANGED <<now, restarts, peer, network>>

ServerNext ==
    \/ SubmitTransaction
    \/ StartMining
    \/ StopMining
    \/ mineSelect
    \/ mineDrain
    \/ mineAddBlock

ServerSpec == Init /\ [][ServerNext]_vars

\* the server with clients that send coins through SendTransaction while a
\* mining loop runs
SendSpec ==
    Init /\ [][\/ SendTransaction
               \/ StartMining
               \/ mineSelect
               \/ mineDrain
               \/ mineAddBlock]_vars

(* ---------------------------- subscriptions ---------------------------- *)
\* the n-th message submitted while subscribers listen
NumberedRequest(n) ==
    [Id |-> NoHex, Inputs |-> <<>>,
     Outputs |-> <<[Value |-> n, PublicKeyHash |-> NoHex]>>]

\* Server.SubscribeTransactions up to its loop: a channel of capacity
\* SubCapacity is made and appended to txSubs
SubscribeTransactions ==
    /\ Len(server.txSubs) < MaxSubs
    /\ server' = [server EXCEPT !.txSubs = Append(@, <<>>)]
    /\ UNCHANGED <<Blocks, DifficultyTarget, UTXOs, store, now, faults,
                   restarts, peer, network>>

\* the loop of SubscribeTransactions: a transaction is taken from the
\* channel and sent on the stream
streamSend ==
    /\ \E i \in 1..Len(server.txSubs) :
          /\ Len(server.txSubs[i]) > 0
          /\ server' = [server EXCEPT !.txSubs[i] = Tail(@)]
    /\ UNCHANGED <<Blocks, DifficultyTarget, UTXOs, store, now, faults,
                   restarts, peer, network>>

\* the stream of a subscriber ends: its channel is removed from txSubs
streamDone ==
    /\ \E i \in 1..Len(server.txSubs) :
          server' = [server EXCEPT
                       !.txSubs = SubSeq(@, 1, i - 1)
                                     \o SubSeq(@, i + 1, Len(@))]
    /\ UNCHANGED <<Blocks, DifficultyTarget, UTXOs, store, now, faults,
                   restarts, peer, network>>

\* SubmitTransaction with the next numbered message
SubmitNumbered ==
    /\ Len(server.mempool) < MaxSubmits
    /\ server' = SubmitTransactionOutcome(
                     server, NumberedRequest(Len(server.mempool) + 1)).server
    /\ UNCHANGED <<Blocks, DifficultyTarget, UTXOs, store, now, faults,
                   restarts, peer, network>>

SubsNext ==
    \/ SubscribeTransactions
    \/ streamSend
    \/ streamDone
    \/ SubmitNumbered

SubsSpec == Init /\ [][SubsNext]_vars

(* ----------------------------- retargeting ----------------------------- *)
\* the candidate lists of the runs that reach a retargeting point: none, or
\* one coinbase-shaped transaction (AddBlock adjusts the difficulty, mines,
\* and fails in ValidateBlock)
RetargetLists ==
    {<<>>, <<NewCoinbaseTx(AddressOf(OtherKey(MinerKey)), "extra", Subsidy)>>}

\* AddBlock on a chain that grows up to and past DifficultyAdjustmentInterval
RetargetMine ==
    /\ Len(Blocks) < RetargetBlocks
    /\ \E transactions \in RetargetLists :
          AddBlock(transactions, AddressOf(MinerKey), 0)

\* time passes between two AddBlock calls
RetargetTick ==
    /\ now < RetargetTicks * RetargetTickSeconds
    /\ now' = now + RetargetTickSeconds
    /\ UNCHANGED <<Blocks, DifficultyTarget, UTXOs, store, faults, restarts,
                   peer,
                   server, network>>

RetargetNext ==
    \/ RetargetMine
    \/ RetargetTick
    \/ Reload

RetargetSpec == Init /\ [][RetargetNext]_vars

(* ------------------------------ properties ----------------------------- *)
\* the outputs a transaction was created with, read from the preimage of its
\* ID (the Outputs field of a transaction object of the chain may have been
\* rewritten through the slice it shares with the UTXO map)
OrigOutputs(id) == IF Len(id) = 3 THEN id[3] ELSE <<>>

\* positions <<block, tx, input>> of the inputs of the non-coinbase
\* transactions of the chain, and the output <<id, index>> each refers to
Spends ==
    UNION {{<<p[1], p[2], i>> :
               i \in 1..Len(Blocks[p[1]].Transactions[p[2]].Inputs)} :
              p \in {q \in TxPositions(Blocks) :
                        ~IsCoinbase(Blocks[q[1]].Transactions[q[2]])}}

InputAt(s) == Blocks[s[1]].Transactions[s[2]].Inputs[s[3]]

SpentRef(s) == <<InputAt(s).TxID, InputAt(s).OutIndex>>

\* the value of the output an input refers to (0 when there is none)
RefValue(in) ==
    LET outs == OrigOutputs(in.TxID) IN
    IF in.OutIndex >= 0 /\ in.OutIndex < Len(outs)
    THEN outs[in.OutIndex + 1].Value ELSE 0

InputTotal(tx) ==
    LET RECURSIVE S(_)
        S(n) == IF n = 0 THEN 0 ELSE RefValue(tx.Inputs[n]) + S(n - 1)
    IN S(Len(tx.Inputs))

UtxoTotal ==
    SumOver(DOMAIN UTXOs, [k \in DOMAIN UTXOs |-> SumValues(UTXOs[k].outs)])

CoinbaseTotal ==
    LET cb == {p \in TxPositions(Blocks) :
                  IsCoinbase(Blocks[p[1]].Transactions[p[2]])}
    IN SumOver(cb, [p \in cb |->
                      SumValues(OrigOutputs(Blocks[p[1]].Transactions[p[2]].ID))])

\* a block built by a peer (PeerBlock) / by AddBlock
FromPeer(block) ==
    /\ Len(block.Transactions) > 0
    /\ block.Transactions[1].Inputs[1].PubKey = <<"data", "peer">>

\* no call has failed after it changed the state
NoFault == faults = 0

\* C1: in every reachable state every block after the first names the hash
\* of its predecessor in PrevBlockHash, whatever sequence of AddBlock calls
\* and of blocks handed to processReceivedBlock led there
C1_ChainLinked ==
    \A i \in 2..Len(Blocks) :
        Blocks[i].Header.PrevBlockHash = Blocks[i - 1].Hash

\* a chain of three blocks, one mined by AddBlock and one accepted by
\* processReceivedBlock
C1_Witness ==
    /\ Len(Blocks) >= 3
    /\ \E i \in 2..Len(Blocks) : FromPeer(Blocks[i])
    /\ \E i \in 2..Len(Blocks) : ~FromPeer(Blocks[i])
    /\ C1_ChainLinked

\* the hash of a header is below 2^(256 - DifficultyTarget): it has at
\* least DifficultyTarget leading zero bits, and no hash is below a target
\* of less than 1
HashMeetsTarget(hdr) ==
    /\ hdr.DifficultyTarget <= HashBits
    /\ LeadingZeros(hdr) >= hdr.DifficultyTarget

C3_NoDoubleSpend ==
    NoFault => \A s, t \in Spends : s # t => SpentRef(s) # SpentRef(t)

\* C4: only the owner of an output spends it: every input of a non-coinbase
\* transaction that AddBlock put on the chain embeds a public key whose
\* hash-160 is the pubkey hash of the output it refers to
C4_OnlyOwnerSpends ==
    \A s \in Spends :
        LET outs == OrigOutputs(InputAt(s).TxID) IN
        /\ InputAt(s).OutIndex >= 0
        /\ InputAt(s).OutIndex < Len(outs)
        /\ PublicKeyHash(InputAt(s).PubKey)
              = outs[InputAt(s).OutIndex + 1].PubKeyHash

\* C5: after any sequence of applied blocks the values of the UTXO set sum
\* to the coinbase outputs of the chain
C5_ValueConserved == NoFault => UtxoTotal = CoinbaseTotal

\* C6: no block of the chain holds a non-coinbase transaction whose outputs
\* sum to more than the outputs it spends (a transaction without inputs
\* spends nothing)
C6_NoOverspend ==
    \A p \in TxPositions(Blocks) :
        LET tx == Blocks[p[1]].Transactions[p[2]] IN
        ~IsCoinbase(tx) => SumValues(OrigOutputs(tx.ID)) <= InputTotal(tx)

\* C7: a call of AddBlock that returns an error leaves the block list, the
\* UTXO set and the persisted tip and height as they were
C7_ErrorLeavesStateUnchanged ==
    [][\A transactions \in CandidateLists(Blocks), failAt \in 0..NumSaveSteps :
          (/\ Len(Blocks) < MaxBlocks
           /\ AddBlock(transactions, AddressOf(MinerKey), failAt)
           /\ AddBlockOutcome(transactions, AddressOf(MinerKey), failAt).err # "")
          => /\ Blocks' = Blocks
             /\ UtxoView(UTXOs') = UtxoView(UTXOs)
             /\ store'.tip = store.tip
             /\ store'.height = store.height]_vars

\* C8: UTXOSet.Update is atomic: whenever Update(tx) returns an error for a
\* transaction a client may submit, the UTXO set it leaves is the set
\* before the call
C8_UpdateAtomic ==
    \A tx \in CandidateTxs(Blocks) :
        With(Update(Mem(UTXOs, Blocks, <<tx>>), NewRef(1)), LAMBDA r :
            r.err # "" => UtxoView(r.mem.utxo) = UtxoView(UTXOs))

\* C9: the UTXO set is keyed by the original (tx_id, out_index): for every
\* output created on the chain, FindUTXO fails when an input of the chain
\* refers to it and returns that very output otherwise
C9_KeyedByOriginalIndex ==
    NoFault =>
        \A p \in TxPositions(Blocks) :
            LET id == Blocks[p[1]].Transactions[p[2]].ID
                outs == OrigOutputs(id)
            IN \A i \in 0..(Len(outs) - 1) :
                  IF \E s \in Spends : SpentRef(s) = <<id, i>>
                  THEN FindUTXO(UTXOs, id, i).err # ""
                  ELSE /\ FindUTXO(UTXOs, id, i).err = ""
                       /\ FindUTXO(UTXOs, id, i).out = outs[i + 1]

StoredGenesis(st) ==
    {h \in DOMAIN st.blocks : st.blocks[h].Header.PrevBlockHash = ZeroHash}

InputSigned(tx, n) ==
    LET in == tx.Inputs[n]
        outs == OrigOutputs(in.TxID)
    IN /\ in.OutIndex >= 0
       /\ in.OutIndex < Len(outs)
       /\ VerifySignature(in.PubKey,
                           SigHash(tx, n, outs[in.OutIndex + 1].PubKeyHash),
                           in.Signature)

Converged ==
    /\ Len(peer.bc.Blocks) = Len(Blocks)
    /\ \A i \in 1..Len(Blocks) : peer.bc.Blocks[i].Hash = Blocks[i].Hash

\* C13: two-node convergence: once the second node, started on a fresh
\* store, is connected to this node, which has appended SyncBlocks blocks,
\* it eventually has the same height and the same block hash at every height
C13_Convergence == (peer.phase = "connected") ~> Converged

\* processReceivedBlock reaches its end, where the block handler is called
HandlerInvoked(out) == out.err = ""

\* the blocks a peer may send: those of PeerBlocks and the blocks of the
\* chain, with their transactions typed or decoded from JSON
OfferedBlocks ==
    With(PeerBlocks \cup {Blocks[i] : i \in 1..Len(Blocks)}, LAMBDA offered :
        offered \cup {JSONBlock(block) : block \in offered})

\* C14: a received block whose hash is already in the chain, or whose
\* PrevBlockHash is not the hash of the tip, is dropped: processReceivedBlock
\* leaves the block list, the UTXO set and the store as they are and does
\* not call the block handler
C14_DroppedBlockNoEffect ==
    \A block \in OfferedBlocks :
        (\/ KnownBlock(Blocks, block.Hash)
         \/ block.Header.PrevBlockHash # Blocks[Len(Blocks)].Hash)
        => With(processReceivedBlockOutcome(block), LAMBDA out :
              /\ out.Blocks = Blocks
              /\ out.UTXOs = UTXOs
              /\ out.store = store
              /\ ~HandlerInvoked(out))

\* the chain holds a block accepted from a peer, and a block is offered
\* that passes every check of ValidateBlock before the previous-hash check
\* and fails that one
C14_Witness ==
    /\ \E i \in 2..Len(Blocks) : FromPeer(Blocks[i])
    /\ \E block \in OfferedBlocks :
          /\ ~KnownBlock(Blocks, block.Hash)
          /\ block.Header.PrevBlockHash # Blocks[Len(Blocks)].Hash
          /\ ValidateBlock(Blocks, block, now) = "previous block hash mismatch"

\* a validly mined block on the tip whose MerkleRoot was altered afterwards,
\* the rest of the header and the cached hash left as they were
AlteredMerkleRoot == PeerBlock(<<>>, Subsidy, DifficultyTarget, "merkle")

\* C15: a validly mined block whose merkle root is altered afterwards is
\* rejected by ValidateBlock with the merkle-root-mismatch error, and
\* processReceivedBlock leaves the chain unchanged
C15_MerkleMismatchReported ==
    /\ ValidateBlock(Blocks, AlteredMerkleRoot, now) = "merkle root mismatch"
    /\ processReceivedBlockOutcome(AlteredMerkleRoot).Blocks = Blocks

\* C16: every block of the chain contains exactly one coinbase transaction
\* and it is the first, whether AddBlock built the block (from any candidate
\* list, one holding a coinbase-shaped transaction included) or a peer did
C16_OneCoinbaseFirst ==
    \A i \in 1..Len(Blocks) :
        LET txs == Blocks[i].Transactions IN
        /\ Len(txs) >= 1
        /\ IsCoinbase(txs[1])
        /\ \A j \in 2..Len(txs) : ~IsCoinbase(txs[j])

\* the chain holds a block of AddBlock with a second transaction and a block
\* of a peer, and AddBlock refuses a candidate list that holds a
\* coinbase-shaped transaction
C16_Witness ==
    /\ \E i \in 2..Len(Blocks) :
          ~FromPeer(Blocks[i]) /\ Len(Blocks[i].Transactions) >= 2
    /\ \E i \in 2..Len(Blocks) : FromPeer(Blocks[i])
    /\ \E k \in Keys :
          AddBlockOutcome(<<NewCoinbaseTx(AddressOf(k), "extra", Subsidy)>>,
                          AddressOf(MinerKey), 0).err
             = "block validation failed"

\* the IDs of the first transactions of the blocks of the chain
SomeIDs == {Blocks[i].Transactions[1].ID : i \in 1..Len(Blocks)}

\* C17: the MerkleRoot of every block of the chain is BuildMerkleRoot over
\* the IDs of its transactions in order; BuildMerkleRoot is 32 zero bytes
\* for no ID, the ID itself for one, and else the pairwise double SHA-256,
\* level by level, the last node of an odd level being paired with itself
C17_MerkleRootOfTxIDs ==
    /\ \A i \in 1..Len(Blocks) :
          Blocks[i].Header.MerkleRoot
             = BuildMerkleRoot(TxIDs(Blocks[i].Transactions))
    /\ BuildMerkleRoot(<<>>) = ZeroHash
    /\ \A a, b, c, d \in SomeIDs :
          /\ BuildMerkleRoot(<<a>>) = a
          /\ BuildMerkleRoot(<<a, b>>) = DoubleHashPair(a, b)
          /\ BuildMerkleRoot(<<a, b, c>>)
                = DoubleHashPair(DoubleHashPair(a, b), DoubleHashPair(c, c))
          /\ BuildMerkleRoot(<<a, b, c, d>>)
                = DoubleHashPair(DoubleHashPair(a, b), DoubleHashPair(c, d))
          /\ BuildMerkleRoot(<<a, b, c, d, a>>)
                = DoubleHashPair(
                     DoubleHashPair(DoubleHashPair(a, b), DoubleHashPair(c, d)),
                     DoubleHashPair(DoubleHashPair(a, a), DoubleHashPair(a, a)))

\* the chain holds a block of AddBlock with two transactions and a block of
\* a peer, and a peer offers a block mined over a root that is not the root
\* of its transactions
C17_Witness ==
    /\ \E i \in 2..Len(Blocks) :
          ~FromPeer(Blocks[i]) /\ Len(Blocks[i].Transactions) >= 2
    /\ \E i \in 2..Len(Blocks) : FromPeer(Blocks[i])
    /\ ValidateBlock(Blocks, PeerBlock(<<>>, Subsidy, DifficultyTarget, "root"),
                     now) = "merkle root mismatch"

\* C18: the difficulty of the engine is within [8, 32] in every state
C18_DifficultyInRange ==
    /\ MinTargetBits <= DifficultyTarget
    /\ DifficultyTarget <= MaxTargetBits

\* the seconds between the first and the last block of the last
\* DifficultyAdjustmentInterval blocks of a chain
WindowTime(blocks) ==
    blocks[Len(blocks)].Header.Timestamp
       - blocks[Len(blocks) - DifficultyAdjustmentInterval + 1].Header.Timestamp

\* the chain is at a retargeting point, its last blocks came too fast and
\* the difficulty, raised from 16 to 32 by earlier calls, is left at 32
C18_Witness ==
    /\ Len(Blocks) = DifficultyAdjustmentInterval
    /\ 2 * WindowTime(Blocks)
          < DifficultyAdjustmentInterval * BlockGenerationInterval
    /\ DifficultyTarget = MaxTargetBits
    /\ adjustDifficulty(Blocks, DifficultyTarget) = MaxTargetBits

\* C19: a step that appends a block to a chain of a positive multiple of
\* N = 10 blocks raises the difficulty by one when the last N blocks span
\* less than (N x 10 s) / 2, lowers it by one when they span more than
\* 2 x (N x 10 s), and else leaves it, within the limits 8 and 32; the
\* appended block carries the new difficulty; no step changes the difficulty
\* of a chain whose length is not a positive multiple of N
C19_RetargetRule ==
    [][LET n == Len(Blocks)
           atInterval == n > 0 /\ n % DifficultyAdjustmentInterval = 0
           expected == DifficultyAdjustmentInterval * BlockGenerationInterval
       IN /\ ~atInterval => DifficultyTarget' = DifficultyTarget
          /\ Len(Blocks') = n + 1 =>
                /\ Blocks'[n + 1].Header.DifficultyTarget = DifficultyTarget'
                /\ atInterval /\ 2 * WindowTime(Blocks) < expected =>
                      DifficultyTarget'
                         = IF DifficultyTarget = MaxTargetBits
                           THEN DifficultyTarget ELSE DifficultyTarget + 1
                /\ atInterval /\ WindowTime(Blocks) > 2 * expected =>
                      DifficultyTarget'
                         = IF DifficultyTarget = MinTargetBits
                           THEN DifficultyTarget ELSE DifficultyTarget - 1
                /\ atInterval /\ 2 * WindowTime(Blocks) >= expected
                              /\ WindowTime(Blocks) <= 2 * expected =>
                      DifficultyTarget' = DifficultyTarget]_vars

\* a block was appended at a retargeting point: the chain has N + 1 blocks,
\* the first N span half the expected time exactly, and the last block
\* carries the difficulty of the block before it
C19_Witness ==
    /\ Len(Blocks) = DifficultyAdjustmentInterval + 1
    /\ 2 * WindowTime(SubSeq(Blocks, 1, DifficultyAdjustmentInterval))
          = DifficultyAdjustmentInterval * BlockGenerationInterval
    /\ Blocks[Len(Blocks)].Header.DifficultyTarget = DifficultyTarget
    /\ Blocks[Len(Blocks)].Header.DifficultyTarget
          = Blocks[Len(Blocks) - 1].Header.DifficultyTarget

\* the header the next AddBlock call of the miner builds and hands to Mine
NextHeader ==
    BlockHeader(Blocks[Len(Blocks)].Hash,
                BuildMerkleRoot(TxIDs(<<BlockReward(AddressOf(MinerKey),
                                                    Len(Blocks))>>)),
                now, adjustDifficulty(Blocks, DifficultyTarget), 0)

\* C20: Mine returns a nonce and a hash such that the hash is the hash of
\* the header with that nonce and is below the target
C20_MineReturnsSolution ==
    LET m == Mine(NextHeader)
        mined == [NextHeader EXCEPT !.Nonce = m.nonce]
    IN /\ m.hash = HashBlockHeader(mined)
       /\ BelowTarget(mined, NextHeader.DifficultyTarget)

\* the goroutines of syncWithPeer that passed the check of the syncing flag
\* and have not returned
PastCheck ==
    {i \in 1..Len(network.syncs) :
        network.syncs[i].pc \in {"open", "request", "response", "download"}}

\* C21: at most one syncWithPeer is past the check of the syncing flag; one
\* that found the flag set has opened no stream; the flag is set exactly
\* while a syncWithPeer is past the check
C21_OneSyncAtATime ==
    /\ Cardinality(PastCheck) <= 1
    /\ \A i \in SyncsAt("returned") :
          ~network.syncs[i].entered => ~network.syncs[i].opened
    /\ network.syncing <=> PastCheck # {}

\* one syncWithPeer returned because the flag was set, one returned after
\* it had opened its stream, one is waiting for the answer of the peer
C21_Witness ==
    /\ \E i \in SyncsAt("returned") : ~network.syncs[i].entered
    /\ \E i \in SyncsAt("returned") : network.syncs[i].opened
    /\ SyncsAt("response") # {}

\* the loops of mineBlocks whose StartMining was followed by a StopMining
StoppedLoops ==
    {i \in 1..Len(server.loops) : server.loops[i].ch \in server.closed}

\* C22: after StopMining isMining is false, and a loop of mineBlocks that
\* was started before the StopMining takes nothing more from the mempool:
\* at its next select it returns
C22_StopIsEffective ==
    [][/\ server'.closed # server.closed => ~server'.isMining
       /\ \A i \in StoppedLoops :
             server.loops[i].pc = "select" => server'.loops[i].pc # "drain"]_vars

\* C23: when the AddBlock of a mining loop fails, the transactions the loop
\* took from the mempool are in the mempool again
C23_DrainedTxsRestored ==
    [][\A i \in 1..Len(server.loops) :
          (/\ server.loops[i].pc = "mine"
           /\ server'.loops[i].pc = "select"
           /\ Len(Blocks') = Len(Blocks)) =>
             \A j \in 1..Len(server.loops[i].txs) :
                \E k \in 1..Len(server'.mempool) :
                   server'.mempool[k] = server.loops[i].txs[j]]_vars

\* C24: every transaction in the mempool of the server passes
\* VerifyTransaction
C24_MempoolVerified ==
    \A k \in 1..Len(server.mempool) :
       VerifyTransaction(Blocks, server.mempool[k])

\* C25: SubmitTransaction with a transaction answers Accepted and leaves the
\* mempool one transaction longer; with no transaction it answers not
\* Accepted and leaves the mempool as it is; a new server has an empty
\* mempool
C25_SubmitAddsOne ==
    /\ NewServer.mempool = <<>>
    /\ \A req \in SubmitRequests :
          LET out == SubmitTransactionOutcome(server, req)
          IN IF req = Nil
             THEN ~out.Accepted /\ out.server.mempool = server.mempool
             ELSE /\ out.Accepted
                  /\ Len(out.server.mempool) = Len(server.mempool) + 1
                  /\ SubSeq(out.server.mempool, 1, Len(server.mempool))
                        = server.mempool

\* a transaction was submitted after a mining loop emptied the mempool and
\* mined a block
C25_Witness ==
    /\ Len(server.mempool) = 1
    /\ server.blocksMined > 0
    /\ Len(Blocks) > 1

\* Blockchain.Height and Blockchain.GetBlock(index), index counted from 0
Height(blocks) == Len(blocks)
GetBlock(blocks, index) ==
    IF index < 0 \/ index >= Len(blocks)
    THEN [err |-> "block index out of range", block |-> Nil]
    ELSE [err |-> "", block |-> <<blocks[index + 1]>>]

\* Server.GetBestBlockHash
GetBestBlockHash(blocks) ==
    With(GetBlock(blocks, Height(blocks)), LAMBDA got :
        IF got.err # ""
        THEN [err |-> "failed to get best block", Hash |-> ""]
        ELSE [err |-> "", Hash |-> Hex(got.block[1].Hash)])

\* Server.GetBlockchainInfo: the height and the best block hash reported
GetBlockchainInfo(blocks) ==
    With(GetBlock(blocks, Height(blocks)), LAMBDA got :
        [Height |-> Height(blocks),
         BestBlockHash |-> IF got.block # Nil THEN Hex(got.block[1].Hash)
                           ELSE ""])

\* C26: GetBestBlockHash succeeds and returns the hash of the last block of
\* the chain; GetBlockchainInfo reports that hash and the number of blocks
C26_BestBlockHash ==
    /\ GetBestBlockHash(Blocks).err = ""
    /\ GetBestBlockHash(Blocks).Hash = Hex(Blocks[Len(Blocks)].Hash)
    /\ GetBlockchainInfo(Blocks).BestBlockHash = Hex(Blocks[Len(Blocks)].Hash)
    /\ GetBlockchainInfo(Blocks).Height = Len(Blocks)

\* C27: once the second node has connected to this node, a block this node
\* broadcasts reaches the second node and its block handler is invoked for
\* it (processReceivedBlock of the second node appends the block)
C27_BroadcastDelivered ==
    [][(/\ network'.broadcasts # network.broadcasts
        /\ peer.phase = "connected") =>
           Len(peer'.bc.Blocks) = Len(peer.bc.Blocks) + 1]_vars

\* C28: a notification never waits: SubmitTransaction goes through whatever
\* the channels of the subscribers hold; every channel with room gets the
\* transaction at its end, a full channel (SubCapacity entries) is left as it
\* is, and no channel holds more than SubCapacity entries
C28_NotifyNeverBlocks ==
    LET req == NumberedRequest(Len(server.mempool) + 1)
        out == SubmitTransactionOutcome(server, req).server
    IN /\ Len(out.mempool) = Len(server.mempool) + 1
       /\ Len(out.txSubs) = Len(server.txSubs)
       /\ \A i \in 1..Len(server.txSubs) :
             /\ Len(server.txSubs[i]) <= SubCapacity
             /\ out.txSubs[i] = IF Len(server.txSubs[i]) < SubCapacity
                                THEN Append(server.txSubs[i], protoToTx(req))
                                ELSE server.txSubs[i]

\* the first subscriber's channel is full and missed the transaction that
\* the second subscriber holds as its newest
C28_Witness ==
    /\ Len(server.txSubs) = 2
    /\ Len(server.txSubs[1]) = SubCapacity
    /\ Len(server.txSubs[2]) > 0
    /\ server.txSubs[2][Len(server.txSubs[2])]
          = server.mempool[Len(server.mempool)]
    /\ \A k \in 1..SubCapacity :
          server.txSubs[1][k] # server.mempool[Len(server.mempool)]

\* a candidate list whose second transaction spends the change output of
\* its first: the miner spends the genesis output, keeping change, and then
\* the change; both are signed, the second with the first as the
\* transaction it refers to
IntraBlockList ==
    With(SignedTx(Blocks, <<<<Blocks[1].Transactions[1].ID, 0>>>>, MinerKey,
                  PaySplit(MinerKey)),
         LAMBDA first :
            <<first,
              SignedTx(Append(Blocks, [Transactions |-> <<first>>]),
                       <<<<first.ID, 1>>>>, MinerKey,
                       <<TxOutput(Subsidy - SendAmount,
                                  PublicKeyHash(PubKeyOf(OtherKey(MinerKey))))>>)>>)

\* C29: AddBlock accepts a candidate list in which the second transaction
\* spends an output of the first, and applies both
C29_IntraBlockSpendAccepted ==
    Len(Blocks) = 1 /\ faults = 0 =>
       With(AddBlockOutcome(IntraBlockList, AddressOf(MinerKey), 0),
            LAMBDA out :
               /\ out.err = ""
               /\ Len(out.Blocks) = 2
               /\ Len(out.Blocks[2].Transactions) = 3)

\* C30: every block a reader finds in the chain (Height, GetBlock,
\* GetLatestBlock, the sync responder read Blocks) is persisted: the store
\* holds the block, and its tip, height and difficulty are those of the
\* chain
C30_VisibleMeansPersisted ==
    /\ \A i \in 1..Len(Blocks) : Blocks[i].Hash \in DOMAIN store.blocks
    /\ store.tip = Blocks[Len(Blocks)].Hash
    /\ store.height = Height(Blocks)
    /\ store.difficulty = DifficultyTarget

\* C39: the difficulty moves at most one step per retargeting point: the
\* headers of two consecutive blocks of the chain carry difficulties that
\* differ by at most 1, whatever AddBlock calls failed between the two appends
C39_OneStepPerBoundary ==
    \A i \in 1..(Len(Blocks) - 1) :
        Blocks[i + 1].Header.DifficultyTarget
            - Blocks[i].Header.DifficultyTarget \in {-1, 0, 1}

\* C35: at most one mining loop is active: a StartMining step taken while
\* isMining is true starts no loop, and in every state at most one loop of
\* mineBlocks that has not returned can pass its next select (find the
\* channel it reads not closed) and go on to drain the mempool
C35_OneMiningLoop ==
    [][/\ server.isMining => Len(server'.loops) = Len(server.loops)
       /\ Cardinality({i \in 1..Len(server'.loops) :
                          /\ server'.loops[i].pc # "returned"
                          /\ \E ch \in {server'.stopMining,
                                         server'.loops[i].ch} :
                                ch \notin server'.closed}) <= 1]_vars

\* C40: a valid transaction accepted into the mempool reaches an applied
\* block while the worker runs: no step drops it, that is, after every step
\* a transaction that passes VerifyTransaction and was in the mempool or in
\* the list a mining loop drained is still in one of them or is in a block of
\* the chain (nothing but a submission puts a dropped transaction back)
C40_ValidTxIncluded ==
    [][LET Held(srv) ==
              {srv.mempool[k] : k \in 1..Len(srv.mempool)}
                 \cup UNION {{srv.loops[i].txs[j] :
                                 j \in 1..Len(srv.loops[i].txs)} :
                             i \in 1..Len(srv.loops)}
           InChain(blocks, transaction) ==
              \E b \in 1..Len(blocks) :
                 \E k \in 1..Len(blocks[b].Transactions) :
                    blocks[b].Transactions[k].ID = transaction.ID
       IN \A transaction \in Held(server) :
             VerifyTransaction(Blocks, transaction) =>
                \/ transaction \in Held(server')
                \/ InChain(Blocks', transaction)]_vars

C32_BlocksImmutable ==
    [][restarts' = restarts =>
          /\ Len(Blocks') >= Len(Blocks)
          /\ \A i \in 1..Len(Blocks) : Blocks'[i] = Blocks[i]]_vars

\* C33: signature round trip: for every wallet k and message m (here the
\* hashes of the blocks of the chain), every signature Sign can produce,
\* with r and s of full length or with leading zero bytes, is verified by
\* VerifySignature under the public key of k, and is not verified for
\* another message or under another public key
C33_SignatureRoundTrip ==
    LET lens == (ScalarBytes - MaxMissingBytes)..ScalarBytes
        messages == {Blocks[i].Hash : i \in 1..Len(Blocks)}
                       \cup {Blocks[1].Transactions[1].ID}
    IN \A k \in Keys : \A m \in messages : \A rLen \in lens : \A sLen \in lens :
          LET signature == Signature(k, m, rLen, sLen)
          IN /\ VerifySignature(PubKeyOf(k), m, signature)
             /\ \A m2 \in messages \ {m} :
                   ~VerifySignature(PubKeyOf(k), m2, signature)
             /\ ~VerifySignature(PubKeyOf(OtherKey(k)), m, signature)

\* C38: no entry of the UTXO set and no output of a transaction of the
\* chain or of the mempool has a negative value (a SendTransaction call
\* with a negative amount puts no transaction into the mempool)
C38_NoNegativeValue ==
    /\ \A k \in DOMAIN UTXOs :
          \A i \in 1..Len(UTXOs[k].outs) : UTXOs[k].outs[i].Value >= 0
    /\ \A k \in 1..Len(server.mempool) :
          \A i \in 1..Len(server.mempool[k].Outputs) :
             server.mempool[k].Outputs[i].Value >= 0
    /\ \A p \in TxPositions(Blocks) :
          \A i \in 1..Len(Blocks[p[1]].Transactions[p[2]].Outputs) :
             Blocks[p[1]].Transactions[p[2]].Outputs[i].Value >= 0

C31_BalanceAtomic ==
    \A transactions \in CandidateLists(Blocks) :
       (/\ \A i \in 1..Len(transactions) :
              ~VerifyPanics(Blocks, transactions[i])
        /\ AddBlockOutcome(transactions, AddressOf(MinerKey), 0).err = "") =>
          LET allTxs == <<BlockReward(AddressOf(MinerKey), Len(Blocks))>>
                           \o transactions
              after == AddBlockOutcome(transactions, AddressOf(MinerKey),
                                       0).UTXOs
          IN \A n \in 0..Len(allTxs) : \A k \in Keys :
                GetBalance(ApplyTxs(Mem(UTXOs, Blocks, SubSeq(allTxs, 1, n)),
                                    1).mem.utxo,
                           PublicKeyHash(PubKeyOf(k)))
                   \in {GetBalance(UTXOs, PublicKeyHash(PubKeyOf(k))),
                        GetBalance(after, PublicKeyHash(PubKeyOf(k)))}

====
